---------------------------- MODULE Spec2Model ----------------------------
(***************************************************************************)
(* A model of the Kolibri runtime (kolibri_x): the hash-chained action     *)
(* journal, the skill store and sandbox, the offline cache and the         *)
(* request pipeline and session lifecycle of the runtime orchestrator.     *)
(***************************************************************************)
EXTENDS Integers, Sequences, FiniteSets, TLC

VARIABLES
    now,        \* the wall clock read by datetime.now / datetime.utcnow
    entries,    \* ActionJournal._entries of the journal under study
    file,       \* the JSONL file written by ActionJournal.save (NoFile: absent)
    fileOrigin, \* the entries the file was last saved from
    tampers,    \* number of outside modifications made to the file
    loaded,     \* outcome of the last ActionJournal.load
    restored,   \* _entries of the journal returned by the last load
    executors,  \* SkillSandbox._executors (the registered names)
    usage,      \* SkillSandbox._usage
    sbQuotas,   \* SkillSandbox._quotas
    timeLimit,  \* SkillSandbox._time_limit
    sbJournal,  \* SkillSandbox._journal is not None
    runs,       \* per skill, how many times a worker ran the executor
    lastExec,   \* what the last SkillSandbox.execute call did
    consentAllowed, \* PrivacyOperator: the modalities the user has granted
    storeSkills,    \* SkillStore._skills (the registered names)
    plannerSkills,  \* NeuroSemanticPlanner._skills (the catalogue names)
    cacheOn,        \* KolibriRuntime.cache is not None
    offlineCache,   \* OfflineCache._entries of KolibriRuntime.cache
    ragCache,       \* OfflineCache._entries inside KolibriRuntime.rag_cache
    ragCounts,      \* RAGCache._hits and _misses of KolibriRuntime.rag_cache
    learnerOn,      \* KolibriRuntime.self_learner is not None
    auditLog,       \* SkillStore._audit_log
    stages,         \* the stages SLOTracker has observations for
    profileCount,   \* the signals the profiler has recorded for the user
    calls,          \* number of process calls made (feeds the step ids)
    resp,           \* the RuntimeResponse of the last process call
    prevResp,       \* the response before it, when consent did not change between
    activeSession,  \* KolibriRuntime._active_session_id
    graphStorePath, \* KolibriRuntime._graph_store_path
    graphFiles,     \* the graph snapshots on disk, by path
    graph,          \* the nodes of KolibriRuntime.graph
    iotOn,          \* KolibriRuntime.iot_bridge is not None
    iotCounts,      \* IoTBridge._session_counts
    iotDeferred,    \* IoTBridge: the sessions of the deferred records
    lastCall,       \* the last session-lifecycle call and what it found
    operational_nodes, \* KnowledgeGraph._operational_nodes, in insertion order
    long_term_nodes,   \* KnowledgeGraph._long_term_nodes, in insertion order
    operational_edges, \* KnowledgeGraph._operational_edges
    long_term_edges,   \* KnowledgeGraph._long_term_edges
    pending_updates,   \* KnowledgeGraph._pending_updates, in insertion order
    revision,          \* KnowledgeGraph._revision
    verification_cache, \* KnowledgeGraph._verification_cache["default"]
    critics,           \* KnowledgeGraph._critics and _authorities (the names)
    kgFile,            \* the snapshot written by KnowledgeGraph.save
    kgCall,            \* the last KnowledgeGraph call and what it returned
    records,           \* PrivacyOperator._records
    layers,            \* PrivacyOperator._layers (the names, as registered)
    lastNamed,         \* per user and data type, the last grant/deny call naming it
    storeCall,         \* the last SkillStore call made directly, and what it did
    cacheCall,         \* the last OfflineCache call made directly, and what it returned
    cachePuts,         \* per key, the value and the time of the last OfflineCache.put
    session_counts,    \* IoTBridge._session_counts of a bridge used directly
    deferred,          \* IoTBridge._deferred: records [timestamp, session_id, command]
    iotCall,           \* the last IoTBridge call, what it executed and returned
    iotExecuted,       \* per session, the commands executed since its last reset_session
    sensor_hub,        \* IoTBridge.sensor_hub: whether one is attached, and what it ingested
    workflows,         \* WorkflowManager._workflows, in insertion order
    wfCall,            \* the last WorkflowManager call and what it returned
    selfLearner,       \* a BackgroundSelfLearner and its ContinualLearner
    learnerFile,       \* the state file written by BackgroundSelfLearner.save
    learnerCall,       \* the last BackgroundSelfLearner call and what it returned
    enqueueThread,     \* a thread inside enqueue: its position and its locals
    stepThread,        \* a thread inside step: its position and its locals
    subscribers,       \* KPRLManager._subscribers: the queues, in subscription order
    broadcasts,        \* the _broadcast tasks append_block created, not yet run
    chain,             \* the blocks written to the chain file
    listeners,         \* ChatSession.listeners
    backlog,           \* ChatSession.backlog
    streamCall,        \* the last call on the manager or the session
    planCall           \* the last NeuroSemanticPlanner.plan call made directly

journalVars == <<entries, file, fileOrigin, tampers, loaded, restored>>
sandboxVars == <<executors, usage, sbQuotas, timeLimit, sbJournal, runs, lastExec>>
runtimeVars == <<consentAllowed, storeSkills, plannerSkills, cacheOn, offlineCache, ragCache,
                 ragCounts, learnerOn, auditLog, stages, profileCount, calls, resp, prevResp>>
sessionVars == <<activeSession, graphStorePath, graphFiles, graph, iotOn, iotCounts,
                 iotDeferred, lastCall>>
kgVars == <<operational_nodes, long_term_nodes, operational_edges, long_term_edges,
            pending_updates, revision, verification_cache, critics, kgFile, kgCall>>
consentVars == <<records, layers, lastNamed>>
storeVars == <<storeCall>>
cacheVars == <<cacheCall, cachePuts>>
iotVars == <<session_counts, deferred, iotCall, iotExecuted, sensor_hub>>
workflowVars == <<workflows, wfCall>>
learnerVars == <<selfLearner, learnerFile, learnerCall, enqueueThread, stepThread>>
streamVars == <<subscribers, broadcasts, chain, listeners, backlog, streamCall>>
plannerVars == <<planCall>>
componentVars == <<storeVars, cacheVars, iotVars, workflowVars, learnerVars, streamVars,
                   plannerVars>>
libraryVars == <<kgVars, consentVars, componentVars>>
nonJournalVars == <<sandboxVars, runtimeVars, sessionVars, libraryVars>>

(***************************************************************************)
(* Bounds of the model.                                                    *)
(***************************************************************************)
MaxClock == 2
MaxEntries == 2
MaxTampers == 1
MaxRestoredAppends == 1

(***************************************************************************)
(* journal.py: values                                                      *)
(***************************************************************************)
\* "0" * 64, the prev_hash of the first entry
ZeroHash == <<>>
\* a line of the file without a "hash" key (data.get("hash") is None)
NoneHash == <<"none">>
\* a path at which no file exists
NoFile == [exists |-> FALSE, lines |-> <<>>]

JournalEvents == {"alpha", "beta"}

\* Payload mappings with one item.  A key is an int or a str; a value is an
\* int, a tuple, a list, a datetime or a str (<<"str", n>> is the text that
\* isoformat gives for the datetime n; <<"list", n>> and <<"tuple", n>> hold
\* the same items n).
Payloads ==
    { [key |-> <<"int", 1>>, val |-> <<"tuple", 1>>],
      [key |-> <<"str", 1>>, val |-> <<"datetime", 2>>],
      [key |-> <<"str", 2>>, val |-> <<"int", 2>>] }

\* datetime.isoformat and datetime.fromisoformat
Isoformat(t) == <<"iso", t>>
IsIsoString(s) == s[1] = "iso"
Fromisoformat(s) == s[2]

\* _canonical_payload.normalise on one value
Normalise(v) ==
    CASE v[1] = "tuple" -> <<"list", v[2]>>
      [] v[1] = "datetime" -> <<"str", v[2]>>
      [] OTHER -> v

\* _canonical_payload: str(key) for every key, normalise for every value
CanonicalPayload(p) ==
    IF DOMAIN p = {"key", "val"}
    THEN [key |-> <<"str", p.key[2]>>, val |-> Normalise(p.val)]
    ELSE p

\* JournalEntry.compute_hash: SHA-256 of the canonical JSON of the five
\* fields, modelled as the collision-free digest that is the text itself.
ComputeHash(e) ==
    <<e.index, e.event, CanonicalPayload(e.payload), Isoformat(e.timestamp), e.prev_hash>>

\* JournalEntry(...) with __post_init__
JournalEntry(index, event, payload, timestamp, prev_hash) ==
    LET e == [index |-> index, event |-> event, payload |-> payload,
              timestamp |-> timestamp, prev_hash |-> prev_hash]
    IN  [index |-> index, event |-> event, payload |-> payload,
         timestamp |-> timestamp, prev_hash |-> prev_hash, hash |-> ComputeHash(e)]

\* F applied to the value of v, which is computed once: what an assignment
\* to a local variable does
Bind(v, F(_)) == CHOOSE y \in {F(x) : x \in {v}} : TRUE

AppendWrongPrev(es, event, payload, t) ==
    Append(es, JournalEntry(Len(es), event, payload, t, ZeroHash))

\* ActionJournal.append
JournalAppend(es, event, payload, t) ==
    Bind(es, LAMBDA seq :
       LET prev_hash == IF Len(seq) > 0 THEN seq[Len(seq)].hash ELSE ZeroHash
       IN  Append(seq, JournalEntry(Len(seq), event, payload, t, prev_hash)))

RECURSIVE VerifyFrom(_, _, _)
VerifyFrom(es, i, prev_hash) ==
    IF i > Len(es) THEN TRUE
    ELSE IF es[i].prev_hash # prev_hash THEN FALSE
    ELSE IF ComputeHash(es[i]) # es[i].hash THEN FALSE
    ELSE VerifyFrom(es, i + 1, es[i].hash)

\* ActionJournal.verify
Verify(es) == VerifyFrom(es, 1, ZeroHash)

ToDictNoPrev(e) ==
    [index |-> e.index, event |-> e.event, payload |-> CanonicalPayload(e.payload),
     timestamp |-> Isoformat(e.timestamp), prev_hash |-> ZeroHash, hash |-> e.hash]

\* JournalEntry.to_dict
ToDict(e) ==
    [index |-> e.index, event |-> e.event, payload |-> CanonicalPayload(e.payload),
     timestamp |-> Isoformat(e.timestamp), prev_hash |-> e.prev_hash, hash |-> e.hash]

\* ActionJournal.save: one JSON line per entry
SaveLines(es) == [exists |-> TRUE, lines |-> [i \in 1..Len(es) |-> ToDict(es[i])]]

\* the entry JournalEntry.from_dict builds from a line (its hash recomputed)
EntryOfLine(d) ==
    JournalEntry(d.index, d.event, d.payload, Fromisoformat(d.timestamp), d.prev_hash)

FromDictUnchecked(d) ==
    IF ~IsIsoString(d.timestamp) THEN [ok |-> FALSE, entry |-> <<>>]
    ELSE [ok |-> TRUE, entry |-> EntryOfLine(d)]

\* JournalEntry.from_dict: ok = FALSE stands for the ValueError
FromDict(d) ==
    IF ~IsIsoString(d.timestamp) THEN [ok |-> FALSE, entry |-> <<>>]
    ELSE IF d.hash # NoneHash /\ d.hash # EntryOfLine(d).hash
         THEN [ok |-> FALSE, entry |-> <<>>]
         ELSE [ok |-> TRUE, entry |-> EntryOfLine(d)]

RECURSIVE LoadLines(_, _, _)
LoadLines(lines, i, acc) ==
    IF i > Len(lines) THEN [ok |-> TRUE, entries |-> acc]
    ELSE LET r == FromDict(lines[i])
         IN  IF ~r.ok THEN [ok |-> FALSE, entries |-> <<>>]
             ELSE LoadLines(lines, i + 1, Append(acc, r.entry))

\* ActionJournal.load: status "error" stands for the ValueError, after which
\* the caller holds no journal
JournalLoad(f) ==
    IF ~f.exists THEN [status |-> "ok", entries |-> <<>>]
    ELSE LET r == LoadLines(f.lines, 1, <<>>)
         IN  IF ~r.ok THEN [status |-> "error", entries |-> <<>>]
             ELSE IF ~Verify(r.entries) THEN [status |-> "error", entries |-> <<>>]
             ELSE [status |-> "ok", entries |-> r.entries]

(***************************************************************************)
(* journal.py: operations                                                  *)
(***************************************************************************)
Tick ==
    /\ now < MaxClock
    /\ now' = now + 1
    /\ UNCHANGED <<journalVars, nonJournalVars>>

\* journal.append(event, payload)
DoAppend ==
    /\ Len(entries) < MaxEntries
    /\ \E ev \in JournalEvents, p \in Payloads :
          entries' = JournalAppend(entries, ev, p, now)
    /\ UNCHANGED <<now, file, fileOrigin, tampers, loaded, restored, nonJournalVars>>

\* journal.save(path)
DoSave ==
    /\ loaded.status = "none"
    /\ file' = SaveLines(entries)
    /\ fileOrigin' = entries
    /\ tampers' = 0
    /\ UNCHANGED <<now, entries, loaded, restored, nonJournalVars>>

\* The values an outside writer may put in place of a field of a line.
TamperValues(d, field) ==
    CASE field = "index" -> {d.index + 1}
      [] field = "event" -> JournalEvents \ {d.event}
      [] field = "payload" -> {CanonicalPayload(p) : p \in Payloads} \ {d.payload}
      [] field = "timestamp" -> {Isoformat(d.timestamp[2] + 1), <<"num", d.timestamp[2]>>}
      [] field = "prev_hash" -> {<<"forged">>}
      [] field = "hash" -> {NoneHash, <<"forged">>}

\* The file is changed outside the program: one field of one line is replaced.
TamperFile ==
    /\ loaded.status = "none"
    /\ file.exists
    /\ tampers < MaxTampers
    /\ \E i \in 1..Len(file.lines) :
          \E field \in {"index", "event", "payload", "timestamp", "prev_hash", "hash"} :
             \E v \in TamperValues(file.lines[i], field) :
                file' = [file EXCEPT !.lines[i][field] = v]
    /\ tampers' = tampers + 1
    /\ UNCHANGED <<now, entries, fileOrigin, loaded, restored, nonJournalVars>>

\* The file is changed outside the program: its last line is cut off.
TruncateFile ==
    /\ loaded.status = "none"
    /\ file.exists
    /\ Len(file.lines) > 0
    /\ tampers < MaxTampers
    /\ file' = [file EXCEPT !.lines = SubSeq(file.lines, 1, Len(file.lines) - 1)]
    /\ tampers' = tampers + 1
    /\ UNCHANGED <<now, entries, fileOrigin, loaded, restored, nonJournalVars>>

\* ActionJournal.load(path)
DoLoad ==
    /\ loaded.status = "none"
    /\ LET r == JournalLoad(file)
       IN  /\ loaded' = [status |-> r.status, from |-> file, origin |-> fileOrigin,
                         count |-> Len(r.entries)]
           /\ restored' = r.entries
    /\ UNCHANGED <<now, entries, file, fileOrigin, tampers, nonJournalVars>>

\* restored.append(event, payload) on the journal a load returned
DoAppendRestored ==
    /\ loaded.status = "ok"
    /\ Len(restored) < loaded.count + MaxRestoredAppends
    /\ \E ev \in JournalEvents, p \in Payloads :
          restored' = JournalAppend(restored, ev, p, now)
    /\ UNCHANGED <<now, entries, file, fileOrigin, tampers, loaded, nonJournalVars>>

\* The caller drops the journal (or the error) the last load gave it.
DoDiscard ==
    /\ loaded.status # "none"
    /\ loaded' = [status |-> "none", from |-> NoFile, origin |-> <<>>, count |-> 0]
    /\ restored' = <<>>
    /\ UNCHANGED <<now, entries, file, fileOrigin, tampers, nonJournalVars>>

(***************************************************************************)
(* skills/store.py and runtime/orchestrator.py: the skill sandbox          *)
(***************************************************************************)
MaxRuns == 2
MaxIo == 1

Skills == {"writer", "analyst"}

\* a SkillQuota field that is None
NoLimit == -1

\* the resources in the order _enforce_quota looks at them
Resources == <<"invocations", "cpu_ms", "wall_ms", "net_bytes", "fs_bytes", "fs_ops">>
ResourceSet == {Resources[i] : i \in 1..Len(Resources)}

\* SkillQuota(): every limit None
NoQuota == [r \in ResourceSet |-> NoLimit]

\* SkillStore.quota(name): the limits of the registered manifests
StoreQuota(name) ==
    IF name = "writer" THEN [NoQuota EXCEPT !["invocations"] = 1]
    ELSE IF name = "analyst" THEN [NoQuota EXCEPT !["net_bytes"] = 1]
    ELSE NoQuota

\* _SkillUsage()
ZeroUsage == [r \in ResourceSet |-> 0]

RECURSIVE FirstBreach(_, _, _)
FirstBreach(u, q, i) ==
    IF i > Len(Resources) THEN "none"
    ELSE IF q[Resources[i]] # NoLimit /\ u[Resources[i]] >= q[Resources[i]]
         THEN Resources[i]
         ELSE FirstBreach(u, q, i + 1)

\* SkillSandbox._enforce_quota: the resource named by the SkillQuotaExceeded
\* it raises, "none" when it returns
EnforceQuota(u, q) == FirstBreach(u, q, 1)

\* What the executor does inside the worker process (_invoke_skill):
\*   ok          returns a mapping
\*   nonmapping  returns something that is not a mapping
\*   raise       raises an exception other than MemoryError
\*   memory      raises MemoryError
\*   crash       the process ends without sending a result
\*   slow        returns a mapping, but after more than a positive time limit
\*   hang        never returns
Behaviours == {"ok", "nonmapping", "raise", "memory", "crash", "slow", "hang"}

\* process.join(self._time_limit if self._time_limit > 0 else None) comes
\* back at all: without a limit it waits for a worker that never ends
JoinReturns(behaviour, limit) == ~(behaviour = "hang" /\ limit = 0)

\* process.is_alive() after the join
AliveAfterJoin(behaviour, limit) == limit > 0 /\ behaviour \in {"slow", "hang"}

TerminateSkipped(alive) == alive

\* process.terminate(); process.join(): is the worker alive afterwards
AfterTerminate(alive) == FALSE

\* SkillSandbox._log_event
LogEvent(es, bound, event, payload, t) ==
    IF bound THEN JournalAppend(es, event, payload, t) ELSE es

\* SkillSandbox.execute(name, payload, quota=quota): the journal afterwards
\* and what the call did.  raised is "none" when it returns dict(result).
\* The statements after the last raise of the method (usage accounting and
\* _enforce_quota, orchestrator.py:245-262) are never reached and change
\* nothing, so quota plays no part.
SandboxExecute(es, t, name, keys, quota, behaviour, regs, limit, bound) ==
    IF name \notin regs
    THEN [entries |-> es, raised |-> "KeyError", resource |-> "none", started |-> FALSE,
          timedOut |-> FALSE, terminated |-> FALSE, alive |-> FALSE]
    ELSE IF AliveAfterJoin(behaviour, limit)
    THEN [entries |-> LogEvent(es, bound, "skill_timeout",
                               [skill |-> name, time_limit |-> limit, payload_keys |-> keys], t),
          raised |-> "SkillExecutionError", resource |-> "none", started |-> TRUE,
          timedOut |-> TRUE, terminated |-> TRUE, alive |-> AfterTerminate(TRUE)]
    ELSE IF behaviour \in {"ok", "slow"}
    THEN [entries |-> es, raised |-> "none", resource |-> "none", started |-> TRUE,
          timedOut |-> FALSE, terminated |-> FALSE, alive |-> FALSE]
    ELSE IF behaviour = "nonmapping"
    THEN [entries |-> LogEvent(es, bound, "skill_execution_error",
                               [skill |-> name, error_type |-> "TypeError"], t),
          raised |-> "SkillExecutionError", resource |-> "none", started |-> TRUE,
          timedOut |-> FALSE, terminated |-> FALSE, alive |-> FALSE]
    ELSE IF behaviour = "memory"
    THEN [entries |-> LogEvent(es, bound, "skill_memory_limit_exceeded",
                               [skill |-> name, error_type |-> "MemoryError"], t),
          raised |-> "SkillExecutionError", resource |-> "none", started |-> TRUE,
          timedOut |-> FALSE, terminated |-> FALSE, alive |-> FALSE]
    ELSE IF behaviour = "raise"
    THEN [entries |-> LogEvent(es, bound, "skill_execution_error",
                               [skill |-> name, error_type |-> "RuntimeError"], t),
          raised |-> "SkillExecutionError", resource |-> "none", started |-> TRUE,
          timedOut |-> FALSE, terminated |-> FALSE, alive |-> FALSE]
    ELSE [entries |-> LogEvent(es, bound, "skill_process_terminated",
                               [skill |-> name, payload_keys |-> keys], t),
          raised |-> "SkillExecutionError", resource |-> "none", started |-> TRUE,
          timedOut |-> FALSE, terminated |-> FALSE, alive |-> FALSE]

TotalRuns == runs["writer"] + runs["analyst"]

RECURSIVE SumUsage(_, _)
SumUsage(u, i) == IF i > Len(Resources) THEN 0 ELSE u[Resources[i]] + SumUsage(u, i + 1)

TotalIo == SumUsage(usage["writer"], 1) + SumUsage(usage["analyst"], 1)

NoExec ==
    [called |-> FALSE, name |-> "none", quota |-> NoQuota, usageBefore |-> ZeroUsage,
     behaviour |-> "none", raised |-> "none", resource |-> "none", started |-> FALSE,
     timedOut |-> FALSE, terminated |-> FALSE, alive |-> FALSE]

\* sandbox.execute(name, payload, quota=store.quota(name)) called directly
DoExecute ==
    /\ TotalRuns < MaxRuns
    /\ \E name \in Skills, behaviour \in Behaviours :
          /\ JoinReturns(behaviour, timeLimit)
          /\ LET r == SandboxExecute(entries, now, name, <<"goal">>, StoreQuota(name),
                                     behaviour, executors, timeLimit, sbJournal)
             IN  /\ entries' = r.entries
                 /\ runs' = IF r.started THEN [runs EXCEPT ![name] = @ + 1] ELSE runs
                 /\ lastExec' = [called |-> TRUE, name |-> name, quota |-> StoreQuota(name),
                                 usageBefore |-> usage[name], behaviour |-> behaviour,
                                 raised |-> r.raised, resource |-> r.resource,
                                 started |-> r.started, timedOut |-> r.timedOut,
                                 terminated |-> r.terminated, alive |-> r.alive]
    /\ UNCHANGED <<libraryVars, now, file, fileOrigin, tampers, loaded, restored,
                   executors, usage, sbQuotas, timeLimit, sbJournal, runtimeVars, sessionVars>>

\* sandbox.record_io(name, net_bytes=.., fs_bytes=.., fs_ops=..) with one unit
\* of one resource.  _enforce_quota runs only for a name in _quotas; the
\* exception it raises changes no state.
DoRecordIo ==
    /\ \E name \in Skills, r \in {"net_bytes", "fs_bytes", "fs_ops"} :
          /\ TotalIo < MaxIo
          /\ usage' = [usage EXCEPT ![name][r] = @ + 1]
    /\ UNCHANGED <<libraryVars, now, journalVars, executors, sbQuotas, timeLimit, sbJournal, runs, lastExec,
                   runtimeVars, sessionVars>>

\* sandbox.register(name, executor)
DoRegister ==
    /\ \E name \in Skills \ executors :
          executors' = executors \cup {name}
    /\ UNCHANGED <<libraryVars, now, journalVars, usage, sbQuotas, timeLimit, sbJournal, runs, lastExec,
                   runtimeVars, sessionVars>>

\* a sandbox nobody uses: the state of the sandbox variables in the
\* specifications that are about something else
SandboxIdle ==
    /\ executors = {}
    /\ usage = [n \in Skills |-> ZeroUsage]
    /\ sbQuotas = {}
    /\ timeLimit = 1
    /\ sbJournal = TRUE
    /\ runs = [n \in Skills |-> 0]
    /\ lastExec = NoExec

(***************************************************************************)
(* privacy/consent.py, skills/store.py, core/planner.py, runtime/cache.py  *)
(* and runtime/orchestrator.py: KolibriRuntime.process                     *)
(***************************************************************************)
MaxProcess == 2

\* The clock counts half hours: the runtime is built with
\* OfflineCache(ttl=timedelta(minutes=30)), and RAGCache() keeps an entry
\* for timedelta(minutes=30).
CacheTtl == 1
RagTtl == 1

User == "user-1"

\* Python's None where a skill, an agent or a session id is expected
None == "None"

\* SkillManifest of the two skills of the store: name, inputs, permissions
\* and the policy items in the order of the mapping
Manifest(name) ==
    IF name = "writer"
    THEN [name |-> "writer", inputs |-> {"text"}, permissions |-> {"net.read:whitelist"},
          policy |-> << <<"pii", "deny">> >>]
    ELSE IF name = "deployer"
    THEN [name |-> "deployer", inputs |-> {"code"},
          permissions |-> {"net.write:api", "fs.read:tmp"},
          policy |-> << <<"trace", "log">>, <<"pii", "Forbid">>, <<"audit", "REQUIRED">> >>]
    ELSE [name |-> name, inputs |-> {"data"}, permissions |-> {},
          policy |-> << <<"audit", "require">> >>]

\* the names a planner catalogue can hold, in sorted order ("ghost" is a
\* skill of the catalogue handed to the planner that the store does not have)
CatalogueOrder == <<"analyst", "ghost", "writer">>

\* the catalogue as the list the planner iterates
Catalogue(names) == SelectSeq(CatalogueOrder, LAMBDA n : n \in names)

\* PrivacyOperator.enforce for a user whose record grants `allowed`
ConsentEnforce(allowed, requested) == requested \cap allowed

\* the goals of the requests and the sentences str.split(".") finds in them
GoalDraft == "Draft the text"
GoalDeploy == "Deploy analyst code. Draft the text"
GoalChain == "Deploy analyst code. Ask the ghost. Draft the text"
SplitGoal(goal) ==
    IF goal = GoalDeploy THEN <<"Deploy analyst code", "Draft the text">>
    ELSE IF goal = GoalChain THEN <<"Deploy analyst code", "Ask the ghost", "Draft the text">>
    ELSE <<goal>>

\* the skill keywords a sentence contains (kw.lower() in sentence_l)
Mentions(sentence) ==
    IF sentence = "Draft the text" THEN {"text"}
    ELSE IF sentence = "Deploy analyst code" THEN {"analyst"}
    ELSE IF sentence = "Ask the ghost" THEN {"ghost"}
    ELSE {}

\* len(description.lower().split())
TokenCount(sentence) == 3

\* the tokens of the sentence RiskAssessor.assess looks for
RiskTokens(sentence) ==
    IF sentence = "Deploy analyst code" THEN {"deploy", "code"} ELSE {}

\* _match_skill: the keyword score of one catalogue skill
KeywordScore(name, sentence) ==
    Cardinality(({name} \cup Manifest(name).inputs \cup Manifest(name).permissions)
                \cap Mentions(sentence))

RECURSIVE BestSkill(_, _, _, _, _)
BestSkill(cands, i, score, best, sentence) ==
    IF i > Len(cands) THEN best
    ELSE IF KeywordScore(cands[i], sentence) > score
    THEN BestSkill(cands, i + 1, KeywordScore(cands[i], sentence), cands[i], sentence)
    ELSE BestSkill(cands, i + 1, score, best, sentence)

\* NeuroSemanticPlanner._match_skill
MatchSkill(sentence, hints, catalogue) ==
    LET hinted == SelectSeq(catalogue, LAMBDA n : n \in hints)
        cands == IF hints # {} THEN hinted ELSE catalogue
    IN  IF hints # {} /\ hinted # <<>> THEN hinted[1]
        ELSE BestSkill(cands, 1, -1, None, sentence)

Min(a, b) == IF a < b THEN a ELSE b

\* RiskAssessor.assess and RiskAssessment.score: likelihood and impact in
\* hundredths, the score in ten-thousandths
RiskScore(sentence, ndeps) ==
    LET likelihood == 25 + 10 * ndeps
                      + (IF RiskTokens(sentence) \cap {"integrate", "deploy", "compliance", "legal"} # {}
                         THEN 30 ELSE 0)
        impact == 30 + 2 * TokenCount(sentence)
                  + (IF RiskTokens(sentence) \cap {"critical", "deadline"} # {} THEN 40 ELSE 0)
    IN  Min(10000, Min(likelihood, 100) * Min(impact, 100))

Mitigation(sentence) ==
    IF "code" \in RiskTokens(sentence) THEN "peer_review" ELSE "checkpoint_review"

\* AgentCoordinator.choose_agent: each skill has at most one candidate agent
ChooseAgent(skill) ==
    IF skill = "writer" THEN "writer_agent"
    ELSE IF skill = "analyst" THEN "analyst_agent"
    ELSE None

\* f"step-{index+1}-{uuid.uuid4().hex[:6]}": the random part is fresh for
\* every step of every call
StepId(i, call) == <<"step", i, call>>

RECURSIVE SumRisk(_, _)
SumRisk(steps, i) == IF i > Len(steps) THEN 0 ELSE steps[i].risk + SumRisk(steps, i + 1)

\* NeuroSemanticPlanner.plan; risk_score is fmean, kept as <<sum, count>>;
\* no mission template is registered, so versions is empty
MakePlan(goal, hints, catalogue, call) ==
    LET sentences == SplitGoal(goal)
        steps == [i \in 1..Len(sentences) |->
                    [id |-> StepId(i, call),
                     description |-> sentences[i],
                     skill |-> MatchSkill(sentences[i], hints, catalogue),
                     dependencies |-> IF i = 1 THEN <<>> ELSE <<StepId(i - 1, call)>>,
                     risk |-> RiskScore(sentences[i], IF i = 1 THEN 0 ELSE 1),
                     agent |-> ChooseAgent(MatchSkill(sentences[i], hints, catalogue)),
                     metadata |-> <<"mitigation", Mitigation(sentences[i])>>]]
    IN  [goal |-> goal, steps |-> steps, risk_score |-> <<SumRisk(steps, 1), Len(steps)>>,
         horizon |-> None, versions |-> <<>>]

\* PlanStep.as_dict
StepAsDict(s) ==
    [id |-> s.id, description |-> s.description, skill |-> s.skill,
     dependencies |-> s.dependencies, risk |-> s.risk, agent |-> s.agent,
     metadata |-> s.metadata]

\* Plan.as_dict
PlanAsDict(plan) ==
    [goal |-> plan.goal, steps |-> [i \in 1..Len(plan.steps) |-> StepAsDict(plan.steps[i])],
     risk_score |-> plan.risk_score, horizon |-> plan.horizon, versions |-> plan.versions]

\* KolibriRuntime._plan_from_dict: PlanStep and Plan are built from the id,
\* description, skill and dependencies of the steps and from the goal; every
\* other field takes the default of its dataclass
PlanFromDict(d) ==
    [goal |-> d.goal,
     steps |-> [i \in 1..Len(d.steps) |->
                  [id |-> d.steps[i].id, description |-> d.steps[i].description,
                   skill |-> d.steps[i].skill, dependencies |-> d.steps[i].dependencies,
                   risk |-> 0, agent |-> None, metadata |-> <<>>]],
     risk_score |-> <<0, 1>>, horizon |-> None, versions |-> <<>>]

\* SkillExecution.to_dict and SkillExecution.from_dict
ExecToDict(e) == [step_id |-> e.step_id, skill |-> e.skill, output |-> e.output]
ExecFromDict(d) == [step_id |-> d.step_id, skill |-> d.skill, output |-> d.output]

\* OfflineCache.prune, get and put over entries [key, value, timestamp]
CachePrune(cache, ttl, t) == {e \in cache : ~(t - e.timestamp > ttl)}
CacheHas(cache, key) == \E e \in cache : e.key = key
CacheValue(cache, key) == (CHOOSE e \in cache : e.key = key).value
CachePutKeepingTimestamp(cache, key, value, t) ==
    {e \in cache : e.key # key}
    \cup {[key |-> key, value |-> value,
           timestamp |-> IF \E e \in cache : e.key = key
                         THEN (CHOOSE e \in cache : e.key = key).timestamp
                         ELSE t]}

CachePut(cache, key, value, t) ==
    {e \in cache : e.key # key} \cup {[key |-> key, value |-> value, timestamp |-> t]}

\* RAGCache.stats(): size after pruning, the counters and the two rates as
\* fractions <<numerator, denominator>> (0/1 when nothing was requested)
RagStats(cache, counts, t) ==
    LET requests == counts.hits + counts.misses
    IN  [hits |-> counts.hits, misses |-> counts.misses, requests |-> requests,
         hit_rate |-> IF requests # 0 THEN <<counts.hits, requests>> ELSE <<0, 1>>,
         miss_rate |-> IF requests # 0 THEN <<counts.misses, requests>> ELSE <<0, 1>>,
         size |-> Cardinality(CachePrune(cache, RagTtl, t))]

\* KolibriRuntime._cache_key: the digest of user, goal, the permitted
\* modalities, the transcript and the sorted tags, kept as the text digested
CacheKey(user, goal, filtered, transcript, tags) ==
    <<user, goal, filtered, transcript, tags>>

\* RAGCache._key
RagKey(user, query, tags, modalityNames, top_k) ==
    <<user, query, tags, modalityNames, top_k>>

\* RAGPipeline.answer over the (unchanging) knowledge graph
RagAnswer(query, top_k) == [query |-> query, top_k |-> top_k, support |-> <<>>]

\* the name under which process times the sandbox call of a skill
SkillStage(name) == IF name = "writer" THEN "skill::writer" ELSE "skill::analyst"

\* SkillStore._record_audit
RecordAudit(audit, skill, decision, actor, detail) ==
    LET a == Append(audit, [skill |-> skill, actor |-> actor, decision |-> decision,
                            detail |-> detail])
    IN  IF Len(a) > 512 THEN Tail(a) ELSE a

\* SkillStore.authorize_execution: the permissions that are missing; when
\* there are none the call returns, otherwise it raises
\* SkillPolicyViolation(name, "permission", "scope_missing")
MissingPermissions(name, scopes) == Manifest(name).permissions \ scopes

\* requirement.lower() on the rules the manifests use
Lower(rule) ==
    IF rule = "Forbid" THEN "forbid"
    ELSE IF rule = "REQUIRED" THEN "required"
    ELSE rule

RECURSIVE FirstViolationCaseSensitive(_, _, _)
FirstViolationCaseSensitive(policy, tags, i) ==
    IF i > Len(policy) THEN <<>>
    ELSE IF policy[i][2] \in {"deny", "blocked", "forbid"} /\ policy[i][1] \in tags
    THEN policy[i]
    ELSE IF policy[i][2] \in {"require", "required"} /\ policy[i][1] \notin tags
    THEN policy[i]
    ELSE FirstViolationCaseSensitive(policy, tags, i + 1)

RECURSIVE FirstViolation(_, _, _)
FirstViolation(policy, tags, i) ==
    IF i > Len(policy) THEN <<>>
    ELSE IF Lower(policy[i][2]) \in {"deny", "blocked", "forbid"} /\ policy[i][1] \in tags
    THEN <<policy[i][1], Lower(policy[i][2])>>
    ELSE IF Lower(policy[i][2]) \in {"require", "required"} /\ policy[i][1] \notin tags
    THEN <<policy[i][1], Lower(policy[i][2])>>
    ELSE FirstViolation(policy, tags, i + 1)

EnforcePolicyAllowsAll(name, tags) == <<>>

\* SkillStore.enforce_policy: <<policy, rule>> of the SkillPolicyViolation it
\* raises, <<>> when it returns
EnforcePolicy(name, tags) == FirstViolation(Manifest(name).policy, tags, 1)

\* the except SkillPolicyViolation branch of _execute_step
PolicyBlocked(st, step, policy, requirement, made, t) ==
    [st EXCEPT
       !.es = JournalAppend(@, "skill_policy_blocked",
                            [step_id |-> step.id, skill |-> step.skill, policy |-> policy,
                             requirement |-> requirement], t),
       !.execs = Append(@, [step_id |-> step.id, skill |-> step.skill,
                            output |-> [status |-> "policy_blocked", policy |-> policy]]),
       !.logs = Append(@, made)]

\* sandbox_payload: the goal, the step's description and the names of the
\* modalities the privacy gate let through
SandboxPayload(req, step, mods) ==
    [goal |-> req.goal, step |-> step.description, modalities |-> mods]

\* the part of _execute_step from sandbox.execute on, reached when both
\* checks of the store have passed
RunInSandbox(st, step, behaviour, env) ==
    Bind(SandboxExecute(st.es, env.t, step.skill, <<"goal", "modalities", "step">>,
                        StoreQuota(step.skill), behaviour, env.regs, env.limit, env.bound),
         LAMBDA r :
    LET status == IF r.raised = "none" THEN "ok"
                  ELSE IF r.raised = "SkillQuotaExceeded" THEN "quota_blocked"
                  ELSE "error"
        event == IF status = "ok" THEN "skill_executed"
                 ELSE IF status = "quota_blocked" THEN "skill_quota_blocked"
                 ELSE "skill_error"
        payload == IF status = "ok"
                   THEN [step_id |-> step.id, skill |-> step.skill, result_keys |-> <<"result">>]
                   ELSE IF status = "quota_blocked"
                   THEN [step_id |-> step.id, skill |-> step.skill, resource |-> r.resource,
                         user_id |-> env.req.user_id]
                   ELSE [step_id |-> step.id, error |-> r.raised]
        output == IF status = "ok" THEN [status |-> "ok", result |-> <<"result", step.skill>>]
                  ELSE IF status = "quota_blocked"
                  THEN [status |-> "quota_blocked", resource |-> r.resource]
                  ELSE [status |-> "error", message |-> r.raised]
    IN  [st EXCEPT
           !.es = JournalAppend(r.entries, event, payload, env.t),
           !.stages = @ \cup {SkillStage(step.skill)},
           !.runs = IF r.started THEN [@ EXCEPT ![step.skill] = @ + 1] ELSE @,
           !.lastExec = [called |-> TRUE, name |-> step.skill, quota |-> StoreQuota(step.skill),
                         payload |-> SandboxPayload(env.req, step, env.mods),
                         usageBefore |-> env.usage[step.skill], behaviour |-> behaviour,
                         raised |-> r.raised, resource |-> r.resource, started |-> r.started,
                         timedOut |-> r.timedOut, terminated |-> r.terminated,
                         alive |-> r.alive],
           !.execs = Append(@, [step_id |-> step.id, skill |-> step.skill, output |-> output]),
           !.logs = Append(@, <<"authorize", "enforce", "execute">>)])

\* KolibriRuntime._execute_step.  st carries the journal, the audit log, the
\* observed stages, the sandbox counters, the executions so far and, for
\* every step, the calls made on the store and the sandbox for it.
ExecuteStep(st, step, behaviour, env) ==
    IF step.skill = None
    THEN [st EXCEPT
            !.es = JournalAppend(@, "skill_skipped", [step_id |-> step.id], env.t),
            !.execs = Append(@, [step_id |-> step.id, skill |-> None,
                                 output |-> [status |-> "skipped", reason |-> "no_skill"]]),
            !.logs = Append(@, <<>>)]
    ELSE IF step.skill \notin env.store
    THEN [st EXCEPT
            !.es = JournalAppend(@, "skill_missing",
                                 [step_id |-> step.id, skill |-> step.skill], env.t),
            !.execs = Append(@, [step_id |-> step.id, skill |-> step.skill,
                                 output |-> [status |-> "missing", skill |-> step.skill]]),
            !.logs = Append(@, <<>>)]
    ELSE LET missing == MissingPermissions(step.skill, env.req.skill_scopes)
             denied == [st EXCEPT !.audit = RecordAudit(@, step.skill, "deny", env.req.user_id,
                                                        [missing_permissions |-> missing])]
             granted == [st EXCEPT
                           !.audit = RecordAudit(@, step.skill, "allow", env.req.user_id,
                                                 [granted |-> Manifest(step.skill).permissions]),
                           !.es = JournalAppend(@, "skill_permissions",
                                                [step_id |-> step.id, skill |-> step.skill,
                                                 granted |-> Manifest(step.skill).permissions,
                                                 user_id |-> env.req.user_id], env.t)]
             violation == EnforcePolicy(step.skill, env.req.data_tags)
             refused == [granted EXCEPT
                           !.audit = RecordAudit(@, step.skill, "deny", env.req.user_id,
                                                 [policy |-> violation[1], rule |-> violation[2]])]
             cleared == [granted EXCEPT
                           !.audit = RecordAudit(@, step.skill, "allow", env.req.user_id,
                                                 [policies |-> Manifest(step.skill).policy])]
         IN  IF missing # {}
             THEN PolicyBlocked(denied, step, "permission", "scope_missing", <<"authorize">>, env.t)
             ELSE IF violation # <<>>
             THEN PolicyBlocked(refused, step, violation[1], violation[2],
                                <<"authorize", "enforce">>, env.t)
             ELSE RunInSandbox(cleared, step, behaviour, env)

RECURSIVE ExecuteFrom(_, _, _, _, _)
ExecuteFrom(st, steps, i, bs, env) ==
    IF i > Len(steps) THEN st
    ELSE Bind(ExecuteStep(st, steps[i], bs[i], env),
              LAMBDA next : ExecuteFrom(next, steps, i + 1, bs, env))

ExecutePlanUntilFailure(st, plan, bs, env) ==
    LET first == ExecuteStep(st, plan.steps[1], bs[1], env)
    IN  IF first.execs[1].output.status \in {"ok", "skipped"}
        THEN ExecuteFrom(first, plan.steps, 2, bs, env)
        ELSE first

\* KolibriRuntime._execute_plan
ExecutePlan(st, plan, bs, env) == ExecuteFrom(st, plan.steps, 1, bs, env)

\* the tail of the miss path of process: _background_learn (the learner has
\* an update for every task enqueued), the offline cache store and the SLO
\* snapshot, with the journal entry of each
FinishMissSnapshotFirst(es, learner, tasks, cached, key, user, observed, t) ==
    LET a == JournalAppend(es, "slo_snapshot", [stages |-> observed], t)
        b == IF cached THEN JournalAppend(a, "cache_store", [key |-> key, user_id |-> user], t)
             ELSE a
    IN  IF learner /\ tasks # <<>>
        THEN JournalAppend(b, "self_learning", [tasks |-> tasks], t) ELSE b

FinishMiss(es, learner, tasks, cached, key, user, observed, t) ==
    LET a == IF learner /\ tasks # <<>>
             THEN JournalAppend(es, "self_learning", [tasks |-> tasks], t) ELSE es
        b == IF cached THEN JournalAppend(a, "cache_store", [key |-> key, user_id |-> user], t)
             ELSE a
    IN  JournalAppend(b, "slo_snapshot", [stages |-> observed], t)

NoResp ==
    [called |-> FALSE, latest |-> FALSE, cached |-> FALSE, at |-> 0, entryAt |-> 0,
     first |-> 1, last |-> 0]

\* the first stages of process with a transcript composed from the
\* modalities of the request instead of the permitted ones
IntakeRawTranscript(req) ==
    LET allowedMods == ConsentEnforce(consentAllowed, DOMAIN req.modalities)
        filtered == [m \in allowedMods |-> req.modalities[m]]
        transcript == IF "text" \in DOMAIN req.modalities THEN req.modalities["text"] ELSE ""
        encoded == (IF transcript # "" THEN {"text"} ELSE {}) \cup (allowedMods \cap {"image"})
        es1 == JournalAppend(entries, "privacy",
                             [user_id |-> req.user_id, allowed |-> allowedMods,
                              blocked |-> (DOMAIN req.modalities) \ allowedMods], now)
        key == CacheKey(req.user_id, req.goal, filtered, transcript, req.data_tags)
        pruned == IF cacheOn THEN CachePrune(offlineCache, CacheTtl, now) ELSE offlineCache
    IN  [req |-> req, t |-> now, allowedMods |-> allowedMods, transcript |-> transcript,
         encoded |-> encoded,
         es |-> IF encoded # {}
                THEN JournalAppend(es1, "fusion", [modalities |-> encoded], now) ELSE es1,
         key |-> key, pruned |-> pruned, hit |-> cacheOn /\ CacheHas(pruned, key),
         stages |-> stages \cup {"privacy_enforce", "compose_transcript", "encode_modalities",
                                 "fusion", "offline_cache_lookup"}]

\* The first stages of process: privacy, transcript, encoding, fusion and the
\* offline cache lookup.  The record holds what the later stages use.
Intake(req) ==
    LET allowedMods == ConsentEnforce(consentAllowed, DOMAIN req.modalities)
        filtered == [m \in allowedMods |-> req.modalities[m]]
        transcript == IF "text" \in allowedMods THEN filtered["text"] ELSE ""
        encoded == (IF transcript # "" THEN {"text"} ELSE {}) \cup (allowedMods \cap {"image"})
        es1 == JournalAppend(entries, "privacy",
                             [user_id |-> req.user_id, allowed |-> allowedMods,
                              blocked |-> (DOMAIN req.modalities) \ allowedMods], now)
        key == CacheKey(req.user_id, req.goal, filtered, transcript, req.data_tags)
        pruned == IF cacheOn THEN CachePrune(offlineCache, CacheTtl, now) ELSE offlineCache
    IN  [req |-> req, t |-> now, allowedMods |-> allowedMods, transcript |-> transcript,
         encoded |-> encoded,
         es |-> IF encoded # {}
                THEN JournalAppend(es1, "fusion", [modalities |-> encoded], now) ELSE es1,
         key |-> key, pruned |-> pruned, hit |-> cacheOn /\ CacheHas(pruned, key),
         stages |-> stages \cup {"privacy_enforce", "compose_transcript", "encode_modalities",
                                 "fusion", "offline_cache_lookup"}]

\* process when the offline cache has the key: the values of the variables
\* it changes and the response.  Besides the fields of RuntimeResponse the
\* response records the request, the time of the call, the time stamp of the
\* offline cache entry of its key, the journal positions first..last of the
\* entries the call appended, the modalities it encoded and, per step, the
\* calls it made on the skill store and the sandbox.
ServeCachedAfterProfiling(p) ==
    LET payload == CacheValue(p.pruned, p.key)
        es == JournalAppend(
                 JournalAppend(p.es, "cache_hit",
                               [user_id |-> p.req.user_id, goal |-> p.req.goal], p.t),
                 "slo_snapshot", [stages |-> p.stages], p.t)
    IN  [entries |-> es, offlineCache |-> p.pruned, ragCache |-> ragCache,
         ragCounts |-> ragCounts,
         auditLog |-> auditLog, stages |-> p.stages, profileCount |-> profileCount + 1,
         runs |-> runs, lastExec |-> lastExec,
         resp |-> [called |-> TRUE, latest |-> TRUE, cached |-> TRUE, request |-> p.req,
                   plan |-> PlanFromDict(payload.plan), answer |-> payload.answer,
                   adjustments |-> payload.adjustments,
                   executions |-> [i \in 1..Len(payload.executions) |->
                                      ExecFromDict(payload.executions[i])],
                   at |-> p.t,
                   entryAt |-> (CHOOSE e \in p.pruned : e.key = p.key).timestamp,
                   first |-> Len(entries) + 1, last |-> Len(es),
                   encoded |-> p.encoded, logs |-> <<>>]]

ServeCached(p) ==
    LET payload == CacheValue(p.pruned, p.key)
        es == JournalAppend(
                 JournalAppend(p.es, "cache_hit",
                               [user_id |-> p.req.user_id, goal |-> p.req.goal], p.t),
                 "slo_snapshot", [stages |-> p.stages], p.t)
    IN  [entries |-> es, offlineCache |-> p.pruned, ragCache |-> ragCache,
         ragCounts |-> ragCounts,
         auditLog |-> auditLog, stages |-> p.stages, profileCount |-> profileCount,
         runs |-> runs, lastExec |-> lastExec,
         resp |-> [called |-> TRUE, latest |-> TRUE, cached |-> TRUE, request |-> p.req,
                   plan |-> PlanFromDict(payload.plan), answer |-> payload.answer,
                   adjustments |-> payload.adjustments,
                   executions |-> [i \in 1..Len(payload.executions) |->
                                      ExecFromDict(payload.executions[i])],
                   at |-> p.t,
                   entryAt |-> (CHOOSE e \in p.pruned : e.key = p.key).timestamp,
                   first |-> Len(entries) + 1, last |-> Len(es),
                   encoded |-> p.encoded, logs |-> <<>>]]

\* rag_query = transcript or request.goal
RagQuery(transcript, goal) == IF transcript # "" THEN transcript ELSE goal

\* process on a miss, up to rag_answer: the plan, the answer from the RAG
\* cache or the RAG pipeline, and the state _execute_plan starts from
PlanAndRetrieve(p, plan) ==
    LET req == p.req
        es3 == JournalAppend(p.es, "plan",
                             [goal |-> req.goal, step_count |-> Len(plan.steps),
                              skills |-> [i \in 1..Len(plan.steps) |-> plan.steps[i].skill]],
                             p.t)
        query == RagQuery(p.transcript, req.goal)
        rkey == RagKey(req.user_id, query, req.data_tags, p.allowedMods, req.top_k)
        rpruned == CachePrune(ragCache, RagTtl, p.t)
        rhit == CacheHas(rpruned, rkey)
        answer == IF rhit THEN CacheValue(rpruned, rkey) ELSE RagAnswer(query, req.top_k)
        es4 == JournalAppend(es3, IF rhit THEN "rag_cache_hit" ELSE "rag_cache_store",
                             [user_id |-> req.user_id, goal |-> req.goal, query |-> query], p.t)
        es5 == JournalAppend(es4, "rag_answer",
                             [query |-> query, support |-> answer.support], p.t)
    IN  [plan |-> plan, answer |-> answer,
         ragCache |-> IF rhit THEN rpruned ELSE CachePut(rpruned, rkey, answer, p.t),
         ragCounts |-> IF rhit THEN [ragCounts EXCEPT !.hits = @ + 1]
                       ELSE [ragCounts EXCEPT !.misses = @ + 1],
         env |-> [req |-> req, mods |-> p.allowedMods, regs |-> executors, limit |-> timeLimit, bound |-> sbJournal,
                  store |-> storeSkills, usage |-> usage, t |-> p.t],
         st |-> [es |-> es5, audit |-> auditLog,
                 stages |-> p.stages \cup {"planning", "rag_cache_lookup"}
                                     \cup (IF rhit THEN {} ELSE {"rag_answer"}),
                 runs |-> runs, lastExec |-> lastExec, execs |-> <<>>, logs |-> <<>>]]

\* process on a miss, after _execute_plan: profile, empathy, learning, the
\* cache store and the snapshot
Complete(p, q, st) ==
    LET req == p.req
        profile == profileCount + req.signals
        adjustments == <<"modulation", profile>>
        es6 == JournalAppend(st.es, "empathy",
                             [user_id |-> req.user_id, adjustments |-> adjustments], p.t)
        payload == [plan |-> PlanAsDict(q.plan), answer |-> q.answer,
                    executions |-> [i \in 1..Len(st.execs) |-> ExecToDict(st.execs[i])],
                    adjustments |-> adjustments]
        tasks == [i \in 1..Len(st.execs) |->
                    IF st.execs[i].skill # None THEN st.execs[i].skill ELSE <<"step", i>>]
        observed == st.stages \cup {"execute_plan", "profile_signals", "empathy_modulation"}
    IN  Bind(FinishMiss(es6, learnerOn, tasks, cacheOn, p.key, req.user_id, observed, p.t),
             LAMBDA es :
        [entries |-> es,
         offlineCache |-> IF cacheOn THEN CachePut(p.pruned, p.key, payload, p.t)
                          ELSE offlineCache,
         ragCache |-> q.ragCache, ragCounts |-> q.ragCounts,
         auditLog |-> st.audit, stages |-> observed,
         profileCount |-> profile, runs |-> st.runs, lastExec |-> st.lastExec,
         resp |-> [called |-> TRUE, latest |-> TRUE, cached |-> FALSE, request |-> req,
                   plan |-> q.plan, answer |-> q.answer, adjustments |-> adjustments,
                   executions |-> st.execs, at |-> p.t, entryAt |-> p.t,
                   first |-> Len(entries) + 1, last |-> Len(es),
                   encoded |-> p.encoded, logs |-> st.logs]])

\* KolibriRuntime.process(request).  bs gives, per plan step, what the
\* executor does if the step gets as far as the sandbox.
ProcessCall(req, bs) ==
    Bind(Intake(req), LAMBDA p :
       IF p.hit THEN ServeCached(p)
       ELSE Bind(MakePlan(req.goal, req.hints, Catalogue(plannerSkills), calls + 1),
                 LAMBDA plan :
            Bind(PlanAndRetrieve(p, plan), LAMBDA q :
            Bind(ExecutePlan(q.st, q.plan, bs, q.env), LAMBDA st : Complete(p, q, st)))))

\* RuntimeRequest(user_id, goal, modalities, hints, signals, data_tags,
\* skill_scopes) with top_k at its default
Request(goal, modalities, hints, signals, tags, scopes) ==
    [user_id |-> User, goal |-> goal, modalities |-> modalities, hints |-> hints,
     signals |-> signals, data_tags |-> tags, skill_scopes |-> scopes, top_k |-> 5]

NoModalities == [m \in {} |-> ""]
TextOnly == [m \in {"text"} |-> "hello"]
TextAndImage == [m \in {"text", "image"} |-> IF m = "text" THEN "hello" ELSE "pixels"]

\* the requests the callers make
Requests ==
    { Request(GoalDraft, TextOnly, {"writer"}, 1, {}, {"net.read:whitelist"}),
      Request(GoalDraft, TextOnly, {"writer"}, 0, {"pii"}, {"net.read:whitelist"}),
      Request(GoalDraft, TextOnly, {"writer"}, 0, {}, {}),
      Request(GoalDeploy, TextAndImage, {}, 1, {"audit"}, {"net.read:whitelist"}),
      Request(GoalDeploy, NoModalities, {}, 0, {}, {"net.read:whitelist"}),
      Request(GoalDraft, NoModalities, {"ghost"}, 0, {}, {}),
      Request(GoalDraft, TextOnly, {"nobody"}, 0, {}, {}) }

\* what the executors of a request's steps may do
ProcessBehaviours == {"ok", "hang", "crash"}

\* runtime.process(request) for a request of the set
ProcessAny(requests) ==
    /\ calls < MaxProcess
    /\ \E req \in requests, bs \in [1..2 -> ProcessBehaviours] :
          \E r \in {ProcessCall(req, bs)} :
              /\ \A i \in 1..2 :
                    (i > Len(r.resp.logs) \/ Len(r.resp.logs[i]) < 3) => bs[i] = "ok"
              /\ \A i \in 1..2 : JoinReturns(bs[i], timeLimit)
              /\ entries' = r.entries
              /\ offlineCache' = r.offlineCache
              /\ ragCache' = r.ragCache
              /\ ragCounts' = r.ragCounts
              /\ auditLog' = r.auditLog
              /\ stages' = r.stages
              /\ profileCount' = r.profileCount
              /\ runs' = r.runs
              /\ lastExec' = r.lastExec
              /\ resp' = r.resp
              /\ prevResp' = IF resp.latest THEN resp ELSE NoResp
    /\ calls' = calls + 1
    /\ UNCHANGED <<libraryVars, now, file, fileOrigin, tampers, loaded, restored, executors, usage, sbQuotas,
                   timeLimit, sbJournal, consentAllowed, storeSkills, plannerSkills, cacheOn,
                   learnerOn, sessionVars>>

DoProcess == ProcessAny(Requests)

\* privacy.grant(user, [modality])
DoGrant ==
    /\ \E m \in {"text", "image"} \ consentAllowed :
          consentAllowed' = consentAllowed \cup {m}
    /\ resp' = [resp EXCEPT !.latest = FALSE]
    /\ UNCHANGED <<libraryVars, now, journalVars, sandboxVars, storeSkills, plannerSkills, cacheOn,
                   offlineCache, ragCache, ragCounts, learnerOn, auditLog, stages, profileCount, calls,
                   prevResp, sessionVars>>

\* a runtime nobody uses
RuntimeIdle ==
    /\ consentAllowed = {}
    /\ storeSkills = {}
    /\ plannerSkills = {}
    /\ cacheOn = FALSE
    /\ offlineCache = {}
    /\ ragCache = {}
    /\ ragCounts = [hits |-> 0, misses |-> 0]
    /\ learnerOn = FALSE
    /\ auditLog = <<>>
    /\ stages = {}
    /\ profileCount = 0
    /\ calls = 0
    /\ resp = NoResp
    /\ prevResp = NoResp

SessionIds == {"s1", "s2"}
GraphPaths == {"s1.kg.jsonl", "s2.kg.jsonl", "shared.kg.jsonl"}
NoGraphFile == [exists |-> FALSE, nodes |-> {}]
NoCall == [op |-> "none"]

\* no session was ever started
SessionIdle ==
    /\ activeSession = None
    /\ graphStorePath = None
    /\ graphFiles = [p \in GraphPaths |-> NoGraphFile]
    /\ graph = {}
    /\ iotOn = FALSE
    /\ iotCounts = [s \in SessionIds |-> 0]
    /\ iotDeferred = <<>>
    /\ lastCall = NoCall

\* KnowledgeGraph(): empty stores, revision 0, nothing cached, no snapshot
\* the snapshot on disk, with the graph value it was saved from
NoKgFile == [snapshot |-> [exists |-> FALSE], origin |-> <<>>, saves |-> 0]
NoVerification == [present |-> FALSE, revision |-> 0, results |-> <<>>]
NoKgCall == [op |-> "none"]

KgIdle ==
    /\ operational_nodes = <<>>
    /\ long_term_nodes = <<>>
    /\ operational_edges = <<>>
    /\ long_term_edges = <<>>
    /\ pending_updates = <<>>
    /\ revision = 0
    /\ verification_cache = NoVerification
    /\ critics = [critics |-> <<>>, authorities |-> <<>>]
    /\ kgFile = NoKgFile
    /\ kgCall = NoKgCall

\* PrivacyOperator(): no consent record, no policy layer
ConsentUsers == {"u1", "u2"}
DataTypes == {"audio", "text"}
NoRecord ==
    [present |-> FALSE, allowed |-> {}, denied |-> {},
     proofs |-> [d \in DataTypes |-> <<>>], updated_at |-> 0]

ConsentIdle ==
    /\ records = [u \in ConsentUsers |-> NoRecord]
    /\ layers = <<>>
    /\ lastNamed = [u \in ConsentUsers |->
                       [d \in DataTypes |-> [call |-> "none", reversed |-> FALSE]]]

\* no direct call of a component has been made
NoStoreCall == [op |-> "none"]

CacheKeys == {"k1", "k2"}
NoCacheCall == [op |-> "none"]
NeverPut == [present |-> FALSE, value |-> "", at |-> 0]

\* BackgroundSelfLearner(history_size=HistorySize, sample_limit=SampleLimit);
\* a fresh BackgroundSelfLearner() has the defaults
HistorySize == 2
SampleLimit == 2
DefaultHistorySize == 32
DefaultSampleLimit == 256

\* a dict with no key
EmptyDict == [k \in {} |-> 0]

\* BackgroundSelfLearner.__init__ with a new ContinualLearner.  Numbers are
\* kept in hundredths (1.0 is 100); _aggregators is kept in insertion order
\* as records [task_id, sums, counts].
FreshLearner(history_size, sample_limit) ==
    [noise_scale |-> 0, clipping |-> 100, min_weight |-> 5,
     aggregators |-> <<>>, pending_counts |-> EmptyDict,
     history |-> <<>>, history_size |-> history_size,
     samples |-> <<>>, sample_limit |-> sample_limit,
     consolidation |-> 60, weights |-> EmptyDict, importance |-> EmptyDict,
     task_history |-> <<>>]

NoLearnerFile == [exists |-> FALSE]

ComponentIdleWith(hub_attached) ==
    /\ storeCall = NoStoreCall
    /\ cacheCall = NoCacheCall
    /\ cachePuts = [key \in CacheKeys |-> NeverPut]
    /\ session_counts = [s \in SessionIds |-> 0]
    /\ deferred = <<>>
    /\ iotCall = [op |-> "none", n |-> 0]
    /\ iotExecuted = [s \in SessionIds |-> 0]
    /\ sensor_hub = [attached |-> hub_attached, events |-> <<>>]
    /\ workflows = <<>>
    /\ wfCall = [op |-> "none"]
    /\ selfLearner = FreshLearner(HistorySize, SampleLimit)
    /\ learnerFile = NoLearnerFile
    /\ learnerCall = [op |-> "none", n |-> 0]
    /\ enqueueThread = [pc |-> "idle"]
    /\ stepThread = [pc |-> "idle"]
    /\ subscribers = <<>>
    /\ broadcasts = <<>>
    /\ chain = <<>>
    /\ listeners = <<>>
    /\ backlog = <<>>
    /\ streamCall = [op |-> "none", n |-> 0]
    /\ planCall = [op |-> "none"]

\* no sensor hub is attached to the bridge
ComponentIdle == ComponentIdleWith(FALSE)

LibraryIdle == KgIdle /\ ConsentIdle /\ ComponentIdle

(***************************************************************************)
(* runtime/orchestrator.py: the session lifecycle, with runtime/iot.py and *)
(* the snapshots of kg/graph.py                                            *)
(***************************************************************************)
MaxSessionEntries == 5
MaxIotActions == 1
MaxDeferred == 1

GraphNodes == {"n1"}

\* Path(f"{session_id}.kg.jsonl")
DefaultGraphPath(sid) == IF sid = "s1" THEN "s1.kg.jsonl" ELSE "s2.kg.jsonl"

\* KnowledgeGraph.save(path) and what KnowledgeGraph.load(path) reads back
GraphSave(files, path, nodes) == [files EXCEPT ![path] = [exists |-> TRUE, nodes |-> nodes]]
GraphLoad(files, path) == files[path].nodes

\* IoTBridge.reset_session: the count of the session is dropped and its
\* deferred records are removed
ResetSession(iot, sid) ==
    [counts |-> [iot.counts EXCEPT ![sid] = 0],
     deferred |-> SelectSeq(iot.deferred, LAMBDA s : s # sid)]

\* the state of the runtime that the session calls read and write
SessionState ==
    [entries |-> entries, active |-> activeSession, path |-> graphStorePath,
     files |-> graphFiles, graph |-> graph,
     iot |-> [counts |-> iotCounts, deferred |-> iotDeferred]]

EndSessionLeavesIot(st, bridge, t) ==
    IF st.active = None THEN st
    ELSE [st EXCEPT
            !.files = IF st.path # None THEN GraphSave(@, st.path, st.graph) ELSE @,
            !.entries = JournalAppend(@, "session_finished",
                                      [session_id |-> st.active, graph_path |-> st.path,
                                       graph_saved |-> st.path # None,
                                       node_count |-> Cardinality(st.graph)], t),
            !.active = None]

\* KolibriRuntime.end_session
EndSession(st, bridge, t) ==
    IF st.active = None THEN st
    ELSE [st EXCEPT
            !.files = IF st.path # None THEN GraphSave(@, st.path, st.graph) ELSE @,
            !.iot = IF bridge THEN ResetSession(@, st.active) ELSE @,
            !.entries = JournalAppend(@, "session_finished",
                                      [session_id |-> st.active, graph_path |-> st.path,
                                       graph_saved |-> st.path # None,
                                       node_count |-> Cardinality(st.graph)], t),
            !.active = None]

\* the part of start_session after the previous session has been dealt with
OpenSession(st, sid, graph_path, t) ==
    LET path == IF graph_path # None THEN graph_path
                ELSE IF st.path # None THEN st.path
                ELSE DefaultGraphPath(sid)
        found == st.files[path].exists
        nodes == IF found THEN GraphLoad(st.files, path) ELSE st.graph
    IN  [st EXCEPT
            !.path = path,
            !.graph = nodes,
            !.active = sid,
            !.entries = JournalAppend(@, "session_started",
                                      [session_id |-> sid, graph_path |-> path,
                                       graph_loaded |-> found,
                                       node_count |-> Cardinality(nodes)], t)]

\* KolibriRuntime.start_session
StartSession(st, sid, graph_path, bridge, t) ==
    IF st.active # None /\ st.active # sid
    THEN Bind(EndSession(st, bridge, t), LAMBDA ended : OpenSession(ended, sid, graph_path, t))
    ELSE OpenSession(st, sid, graph_path, t)

\* what a call found: the session that was active, the length of the
\* journal and the IoT state held for that session
CallRecord(op, arg, graph_path) ==
    [op |-> op, arg |-> arg, graph_path |-> graph_path, before |-> activeSession, len |-> Len(entries),
     held |-> IF activeSession = None THEN 0
              ELSE iotCounts[activeSession]
                   + Len(SelectSeq(iotDeferred, LAMBDA s : s = activeSession))]

SessionAssign(st) ==
    /\ entries' = st.entries
    /\ activeSession' = st.active
    /\ graphStorePath' = st.path
    /\ graphFiles' = st.files
    /\ graph' = st.graph
    /\ iotCounts' = st.iot.counts
    /\ iotDeferred' = st.iot.deferred

\* runtime.start_session(sid) and runtime.start_session(sid, graph_path=..)
DoStartSession ==
    /\ Len(entries) + 2 <= MaxSessionEntries
    /\ \E sid \in SessionIds, graph_path \in {None, "shared.kg.jsonl"} :
          /\ \E st \in {StartSession(SessionState, sid, graph_path, iotOn, now)} :
                SessionAssign(st)
          /\ lastCall' = CallRecord("start_session", sid, graph_path)
    /\ UNCHANGED <<libraryVars, now, file, fileOrigin, tampers, loaded, restored, sandboxVars, runtimeVars,
                   iotOn>>

\* runtime.end_session()
DoEndSession ==
    /\ Len(entries) < MaxSessionEntries
    /\ \E st \in {EndSession(SessionState, iotOn, now)} : SessionAssign(st)
    /\ lastCall' = CallRecord("end_session", None, None)
    /\ UNCHANGED <<libraryVars, now, file, fileOrigin, tampers, loaded, restored, sandboxVars, runtimeVars,
                   iotOn>>

\* runtime.graph.add_node(..)
DoAddNode ==
    /\ \E n \in GraphNodes \ graph : graph' = graph \cup {n}
    /\ lastCall' = CallRecord("add_node", None, None)
    /\ UNCHANGED <<libraryVars, now, journalVars, sandboxVars, runtimeVars, activeSession, graphStorePath,
                   graphFiles, iotOn, iotCounts, iotDeferred>>

\* runtime.dispatch_iot_command(sid, command) for a command the policy
\* allows without confirmation: IoTBridge._execute_command journals
\* iot_rate_limited and raises when the session has used up its actions,
\* otherwise it counts the action and journals iot_executed and, through the
\* sensor hub the runtime attached, iot_sensor_sync
DoDispatchIot ==
    /\ iotOn
    /\ \E sid \in SessionIds :
          LET command == [session_id |-> sid, device_id |-> "lamp", action |-> "on"]
          IN  IF iotCounts[sid] + 1 > MaxIotActions
              THEN /\ Len(entries) < MaxSessionEntries
                   /\ entries' = JournalAppend(entries, "iot_rate_limited", command, now)
                   /\ UNCHANGED iotCounts
              ELSE /\ Len(entries) + 3 <= MaxSessionEntries
                   /\ entries' = JournalAppend(
                                    JournalAppend(
                                       JournalAppend(entries, "iot_executed", command, now),
                                       "iot_sensor_sync", command, now),
                                    "runtime_iot_dispatch", command, now)
                   /\ iotCounts' = [iotCounts EXCEPT ![sid] = @ + 1]
    /\ lastCall' = CallRecord("dispatch_iot_command", None, None)
    /\ UNCHANGED <<libraryVars, now, file, fileOrigin, tampers, loaded, restored, sandboxVars, runtimeVars,
                   activeSession, graphStorePath, graphFiles, graph, iotOn, iotDeferred>>

\* runtime.iot_bridge.queue_delayed(sid, command)
DoQueueDelayed ==
    /\ iotOn
    /\ Len(entries) < MaxSessionEntries
    /\ Len(iotDeferred) < MaxDeferred
    /\ \E sid \in SessionIds :
          /\ iotDeferred' = Append(iotDeferred, sid)
          /\ entries' = JournalAppend(entries, "iot_queued",
                                      [session_id |-> sid, device_id |-> "lamp",
                                       action |-> "on"], now)
    /\ lastCall' = CallRecord("queue_delayed", None, None)
    /\ UNCHANGED <<libraryVars, now, file, fileOrigin, tampers, loaded, restored, sandboxVars, runtimeVars,
                   activeSession, graphStorePath, graphFiles, graph, iotOn, iotCounts>>

vars == <<now, journalVars, nonJournalVars>>

InitJournal ==
    /\ now = 0
    /\ entries = <<>>
    /\ file = NoFile
    /\ fileOrigin = <<>>
    /\ tampers = 0
    /\ loaded = [status |-> "none", from |-> NoFile, origin |-> <<>>, count |-> 0]
    /\ restored = <<>>
    /\ SandboxIdle
    /\ RuntimeIdle
    /\ SessionIdle
    /\ LibraryIdle

NextJournal ==
    \/ Tick
    \/ DoAppend
    \/ DoSave
    \/ TamperFile
    \/ TruncateFile
    \/ DoLoad
    \/ DoAppendRestored
    \/ DoDiscard

SpecJournal == InitJournal /\ [][NextJournal]_vars

\* The caller changes the mapping it passed to append.  JournalEntry keeps
\* the mapping itself (payload=payload), so the entry's payload changes with
\* it while the hash computed in __post_init__ stays.
MutatePassedPayload ==
    /\ loaded.status = "none"
    /\ \E i \in 1..Len(entries) :
          \E p \in Payloads \ {entries[i].payload} :
             entries' = [entries EXCEPT ![i].payload = p]
    /\ UNCHANGED <<now, file, fileOrigin, tampers, loaded, restored, nonJournalVars>>

\* a journal whose callers keep the mappings they passed in
NextAlias ==
    \/ Tick
    \/ DoAppend
    \/ MutatePassedPayload
    \/ DoSave

SpecAlias == InitJournal /\ [][NextAlias]_vars

\* SkillSandbox(time_limit=.., journal=..) with nothing registered; a
\* time_limit of 0 means no limit
InitSandbox ==
    /\ now = 0
    /\ entries = <<>>
    /\ file = NoFile
    /\ fileOrigin = <<>>
    /\ tampers = 0
    /\ loaded = [status |-> "none", from |-> NoFile, origin |-> <<>>, count |-> 0]
    /\ restored = <<>>
    /\ executors = {}
    /\ usage = [n \in Skills |-> ZeroUsage]
    /\ sbQuotas = {}
    /\ timeLimit \in {0, 1}
    /\ sbJournal \in BOOLEAN
    /\ runs = [n \in Skills |-> 0]
    /\ lastExec = NoExec
    /\ RuntimeIdle
    /\ SessionIdle
    /\ LibraryIdle

NextSandbox ==
    \/ Tick
    \/ DoRegister
    \/ DoExecute
    \/ DoRecordIo

SpecSandbox == InitSandbox /\ [][NextSandbox]_vars

\* KolibriRuntime(skill_store=.., sandbox=.., planner=.., cache=..,
\* self_learner=..) with the writer executor registered and consent for text
InitWith(consents) ==
    /\ now = 0
    /\ entries = <<>>
    /\ file = NoFile
    /\ fileOrigin = <<>>
    /\ tampers = 0
    /\ loaded = [status |-> "none", from |-> NoFile, origin |-> <<>>, count |-> 0]
    /\ restored = <<>>
    /\ executors = {"writer"}
    /\ usage = [n \in Skills |-> ZeroUsage]
    /\ sbQuotas = {}
    /\ timeLimit = 1
    /\ sbJournal = TRUE
    /\ runs = [n \in Skills |-> 0]
    /\ lastExec = NoExec
    /\ consentAllowed \in consents
    /\ storeSkills = {"analyst", "writer"}
    /\ plannerSkills = {"analyst", "ghost", "writer"}
    /\ cacheOn \in BOOLEAN
    /\ offlineCache = {}
    /\ ragCache = {}
    /\ ragCounts = [hits |-> 0, misses |-> 0]
    /\ learnerOn \in BOOLEAN
    /\ auditLog = <<>>
    /\ stages = {}
    /\ profileCount = 0
    /\ calls = 0
    /\ resp = NoResp
    /\ prevResp = NoResp
    /\ SessionIdle
    /\ LibraryIdle

\* the user has consented to text
Init == InitWith({{"text"}})

Next ==
    \/ Tick
    \/ DoRegister
    \/ DoGrant
    \/ DoProcess

Spec == Init /\ [][Next]_vars

\* requests that differ in the values of their modalities only, made of a
\* runtime whose user has consented to any of the modalities or to none
ModalityValues == [text |-> {"hello", "secret"}, image |-> {"pixels", "scan"}]
TwinRequests ==
    {Request(GoalDraft, [m \in {"text", "image"} |-> IF m = "text" THEN text ELSE image],
             {"writer"}, 0, {}, {"net.read:whitelist"}) :
        text \in ModalityValues.text, image \in ModalityValues.image}

InitPrivacy == InitWith(SUBSET {"text", "image"})

NextPrivacy ==
    \/ DoGrant
    \/ ProcessAny(TwinRequests)

SpecPrivacy == InitPrivacy /\ [][NextPrivacy]_vars

\* KolibriRuntime(iot_bridge=..) before any session, with or without a bridge
InitSession ==
    /\ now = 0
    /\ entries = <<>>
    /\ file = NoFile
    /\ fileOrigin = <<>>
    /\ tampers = 0
    /\ loaded = [status |-> "none", from |-> NoFile, origin |-> <<>>, count |-> 0]
    /\ restored = <<>>
    /\ SandboxIdle
    /\ RuntimeIdle
    /\ activeSession = None
    /\ graphStorePath = None
    /\ graphFiles = [p \in GraphPaths |-> NoGraphFile]
    /\ graph = {}
    /\ iotOn \in BOOLEAN
    /\ iotCounts = [s \in SessionIds |-> 0]
    /\ iotDeferred = <<>>
    /\ lastCall = NoCall
    /\ LibraryIdle

NextSession ==
    \/ DoStartSession
    \/ DoEndSession
    \/ DoAddNode
    \/ DoDispatchIot
    \/ DoQueueDelayed

SpecSession == InitSession /\ [][NextSession]_vars

(***************************************************************************)
(* kg/graph.py: the knowledge graph.  A graph value g is the record of the *)
(* KnowledgeGraph fields [op, lt, oe, le, pending, rev, cache]; the node   *)
(* stores are dicts, kept as sequences in insertion order.  Confidences    *)
(* are in tenths, edge weights in 1/160000.                                 *)
(***************************************************************************)
NodeIdsOrdered == <<"a", "b", "c">>
NodeIds == {NodeIdsOrdered[i] : i \in 1..Len(NodeIdsOrdered)}
\* the position of an id in Python's string order
IdIndex(id) == CHOOSE i \in 1..Len(NodeIdsOrdered) : NodeIdsOrdered[i] = id

\* the metadata keys the graph writes, each absent (empty) or set
EmptyMetadata ==
    [note |-> <<>>, revisions |-> <<>>, ignored_updates |-> <<>>, pending_backprop |-> <<>>,
     verification_score |-> <<>>, verification_sources |-> <<>>]
EdgeMetadata == [redirects |-> <<>>, pending_review |-> FALSE]

Node(id, text, confidence, embedding, memory) ==
    [id |-> id, text |-> text, confidence |-> confidence, embedding |-> embedding,
     metadata |-> EmptyMetadata, memory |-> memory]

Edge(source, target, relation, memory) ==
    [source |-> source, target |-> target, relation |-> relation, weight |-> 160000,
     memory |-> memory, metadata |-> EdgeMetadata]

\* str.lower on the memory names the model passes
LowerMemory(memory) ==
    CASE memory = "Archive" -> "archive"
      [] memory = "LONG" -> "long"
      [] OTHER -> memory

NormaliseMemory(memory) ==
    IF memory = None \/ memory = "" THEN "operational"
    ELSE IF LowerMemory(memory) \in {"long", "long_term", "archive"} THEN "long_term"
    ELSE "operational"

\* the or of Python: the first operand unless it is None or empty
OrElse(first, second) == IF first = None \/ first = "" THEN second ELSE first

GraphValue ==
    [op |-> operational_nodes, lt |-> long_term_nodes, oe |-> operational_edges,
     le |-> long_term_edges, pending |-> pending_updates, rev |-> revision,
     cache |-> verification_cache]

\* dict operations on a store kept in insertion order
DictHas(store, id) == \E i \in 1..Len(store) : store[i].id = id
DictPos(store, id) == CHOOSE i \in 1..Len(store) : store[i].id = id
DictGet(store, id) == store[DictPos(store, id)]
DictPut(store, node) ==
    IF DictHas(store, node.id) THEN [store EXCEPT ![DictPos(store, node.id)] = node]
    ELSE Append(store, node)
DictDel(store, id) == SelectSeq(store, LAMBDA n : n.id # id)

InvalidateVerificationCache(g) == [g EXCEPT !.cache = NoVerification]
BumpRevision(g) == InvalidateVerificationCache([g EXCEPT !.rev = g.rev + 1])

NodeStorePut(g, tier, node) ==
    IF tier = "long_term" THEN [g EXCEPT !.lt = DictPut(g.lt, node)]
    ELSE [g EXCEPT !.op = DictPut(g.op, node)]

Nodes(g) == g.op \o g.lt
Edges(g) == g.oe \o g.le

HasNode(g, id) == DictHas(g.op, id) \/ DictHas(g.lt, id)
GetNode(g, id) ==
    IF DictHas(g.op, id) THEN DictGet(g.op, id) ELSE DictGet(g.lt, id)

\* add_node writes into the store of the chosen tier and touches no other store
AddNode(g, node, memory) ==
    Bind(NormaliseMemory(OrElse(memory, node.memory)), LAMBDA tier :
        BumpRevision(NodeStorePut(g, tier, [node EXCEPT !.memory = tier])))

PromoteNode(g, node_id) ==
    IF ~DictHas(g.op, node_id) THEN [g |-> g, result |-> FALSE]
    ELSE [g |-> BumpRevision(
                   [g EXCEPT !.op = DictDel(g.op, node_id),
                             !.lt = DictPut(g.lt, [DictGet(g.op, node_id)
                                                     EXCEPT !.memory = "long_term"])]),
          result |-> TRUE]

AddEdge(g, edge, memory) ==
    Bind(NormaliseMemory(OrElse(memory, edge.memory)), LAMBDA tier :
        BumpRevision(IF tier = "long_term"
                     THEN [g EXCEPT !.le = Append(g.le, [edge EXCEPT !.memory = tier])]
                     ELSE [g EXCEPT !.oe = Append(g.oe, [edge EXCEPT !.memory = tier])]))

RemoveNode(g, node_id) ==
    IF DictHas(g.op, node_id) THEN BumpRevision([g EXCEPT !.op = DictDel(g.op, node_id)])
    ELSE IF DictHas(g.lt, node_id) THEN BumpRevision([g EXCEPT !.lt = DictDel(g.lt, node_id)])
    ELSE g

RedirectEdge(edge, old, new) ==
    IF edge.source = old \/ edge.target = old
    THEN [edge EXCEPT !.source = IF @ = old THEN new ELSE @,
                      !.target = IF @ = old THEN new ELSE @,
                      !.metadata.redirects = Append(@, [from |-> old, to |-> new])]
    ELSE edge

References(edge, id) == edge.source = id \/ edge.target = id

RedirectEdges(g, old, new) ==
    LET changed == \E i \in 1..Len(Edges(g)) : References(Edges(g)[i], old)
        moved == [g EXCEPT !.oe = [i \in 1..Len(g.oe) |-> RedirectEdge(g.oe[i], old, new)],
                           !.le = [i \in 1..Len(g.le) |-> RedirectEdge(g.le[i], old, new)]]
    IN  IF changed THEN BumpRevision(moved) ELSE g

\* deduplicate_embeddings(threshold=0.995), as the fraction 199/200
DefaultThreshold == <<199, 200>>

MinOf(a, b) == IF a < b THEN a ELSE b
RECURSIVE DotFrom(_, _, _)
DotFrom(left, right, i) ==
    IF i > MinOf(Len(left), Len(right)) THEN 0
    ELSE left[i] * right[i] + DotFrom(left, right, i + 1)
Dot(left, right) == DotFrom(left, right, 1)

\* _cosine_similarity(left, right) >= threshold for a threshold >= 0 given
\* as a fraction, without the square roots
CosineAtLeast(left, right, threshold) ==
    LET dot == Dot(left, right)
        norms == Dot(left, left) * Dot(right, right)
    IN  IF norms = 0 THEN 0 >= threshold[1]
        ELSE /\ dot >= 0
             /\ dot * dot * threshold[2] * threshold[2] >= threshold[1] * threshold[1] * norms

\* the position in candidates of the first match, 0 for None
FindMatchingNode(candidates, vector, threshold) ==
    LET hits == {i \in 1..Len(candidates) :
                    /\ candidates[i].embedding # <<>>
                    /\ CosineAtLeast(candidates[i].embedding, vector, threshold)}
    IN  IF hits = {} THEN 0 ELSE CHOOSE i \in hits : \A j \in hits : i <= j

Priority(node) == <<IF node.memory = "long_term" THEN 1 ELSE 0, node.confidence>>
TupleGreater(x, y) == x[1] > y[1] \/ (x[1] = y[1] /\ x[2] > y[2])

SelectCanonicalPreferSecond(first, second) ==
    IF ~TupleGreater(Priority(first), Priority(second))
    THEN [canonical |-> second, duplicate |-> first]
    ELSE [canonical |-> first, duplicate |-> second]

SelectCanonical(first, second) ==
    IF TupleGreater(Priority(second), Priority(first))
    THEN [canonical |-> second, duplicate |-> first]
    ELSE [canonical |-> first, duplicate |-> second]

\* one iteration of the loop of deduplicate_embeddings; merges keeps, for
\* each returned pair, the two node values that were compared
DeduplicateStep(st, node, threshold) ==
    IF node.embedding = <<>> THEN st
    ELSE Bind(FindMatchingNode(st.seen, node.embedding, threshold), LAMBDA m :
        IF m = 0 THEN [st EXCEPT !.seen = Append(@, node)]
        ELSE Bind(SelectCanonical(st.seen[m], node), LAMBDA pair :
            [g |-> RemoveNode(RedirectEdges(st.g, pair.duplicate.id, pair.canonical.id),
                              pair.duplicate.id),
             seen |-> [i \in 1..Len(st.seen) |->
                         IF st.seen[i].id = st.seen[m].id THEN pair.canonical ELSE st.seen[i]],
             duplicates |-> Append(st.duplicates, <<pair.canonical.id, pair.duplicate.id>>),
             merges |-> Append(st.merges, [first |-> st.seen[m], second |-> node,
                                           canonical |-> pair.canonical,
                                           duplicate |-> pair.duplicate])]))

RECURSIVE DeduplicateFrom(_, _, _, _)
DeduplicateFrom(st, snapshot, i, threshold) ==
    IF i > Len(snapshot) THEN st
    ELSE Bind(DeduplicateStep(st, snapshot[i], threshold), LAMBDA next :
            DeduplicateFrom(next, snapshot, i + 1, threshold))

DeduplicateEmbeddings(g, threshold) ==
    DeduplicateFrom([g |-> g, seen |-> <<>>, duplicates |-> <<>>, merges |-> <<>>],
                    Nodes(g), 1, threshold)

(***************************************************************************)
(* kg/graph.py: lazy updates.  pending_updates is a dict, kept as the      *)
(* sequence of its items [id, change] in insertion order; a change names   *)
(* a new confidence, a field Node does not have (owner) and a metadata     *)
(* patch, each present (a one-element sequence) or not.                    *)
(***************************************************************************)
NoChange == [confidence |-> <<>>, owner |-> <<>>, metadata |-> <<>>]
Changes ==
    {[NoChange EXCEPT !.confidence = <<9>>, !.metadata = <<[note |-> "pending"]>>],
     [NoChange EXCEPT !.owner = <<"qa">>]}

\* **changes written over what is already pending for the node
MergeChange(old, new) ==
    [confidence |-> IF new.confidence # <<>> THEN new.confidence ELSE old.confidence,
     owner |-> IF new.owner # <<>> THEN new.owner ELSE old.owner,
     metadata |-> IF new.metadata # <<>> THEN new.metadata ELSE old.metadata]

LazyUpdate(g, node_id, changes) ==
    IF ~HasNode(g, node_id) THEN [g |-> g, raised |-> TRUE]
    ELSE [g |-> [g EXCEPT !.pending =
                    IF DictHas(g.pending, node_id)
                    THEN [g.pending EXCEPT ![DictPos(g.pending, node_id)].change =
                                              MergeChange(@, changes)]
                    ELSE Append(g.pending, [id |-> node_id,
                                            change |-> MergeChange(NoChange, changes)])],
          raised |-> FALSE]

\* sorted(ids) for a set of node ids
RECURSIVE SortedIds(_)
SortedIds(ids) ==
    IF ids = {} THEN <<>>
    ELSE LET least == CHOOSE id \in ids : \A other \in ids : IdIndex(id) <= IdIndex(other)
         IN  <<least>> \o SortedIds(ids \ {least})

SeqRange(seq) == {seq[i] : i \in 1..Len(seq)}

\* weight * 0.95 on weights counted in 1/160000
Degraded(weight) == (weight * 19) \div 20

\* _backpropagate that decays the incident edges and leaves the neighbours alone
BackpropagateEdgesOnly(g, node_id) ==
    LET decay(edge) ==
            IF References(edge, node_id)
            THEN [edge EXCEPT !.weight = Degraded(@), !.metadata.pending_review = TRUE]
            ELSE edge
    IN  [g EXCEPT !.oe = [i \in 1..Len(g.oe) |-> decay(g.oe[i])],
                  !.le = [i \in 1..Len(g.le) |-> decay(g.le[i])]]

\* _backpropagate: every incident edge decays and is marked for review,
\* every neighbour that exists is marked with the id
Backpropagate(g, node_id) ==
    LET decay(edge) ==
            IF References(edge, node_id)
            THEN [edge EXCEPT !.weight = Degraded(@), !.metadata.pending_review = TRUE]
            ELSE edge
        neighbours ==
            {IF edge.source = node_id THEN edge.target ELSE edge.source :
                edge \in {e \in SeqRange(Edges(g)) : References(e, node_id)}}
        present == {id \in neighbours : HasNode(g, id)}
        mark(store, tier) ==
            [i \in 1..Len(store) |->
                IF store[i].id \in present /\ GetNode(g, store[i].id).memory = tier
                THEN [store[i] EXCEPT !.metadata.pending_backprop =
                                         SortedIds(SeqRange(@) \cup {node_id})]
                ELSE store[i]]
        marked == [g EXCEPT !.oe = [i \in 1..Len(g.oe) |-> decay(g.oe[i])],
                            !.le = [i \in 1..Len(g.le) |-> decay(g.le[i])],
                            !.op = mark(g.op, "operational"),
                            !.lt = mark(g.lt, "long_term")]
    IN  IF present # {} THEN BumpRevision(marked) ELSE marked

\* the body of the loop of propagate_pending for one item
PropagateOne(st, item) ==
    IF ~HasNode(st.g, item.id) THEN st
    ELSE LET node == GetNode(st.g, item.id)
             patched ==
                IF item.change.metadata = <<>> THEN node.metadata
                ELSE [node.metadata EXCEPT !.revisions = Append(@, item.change.metadata[1]),
                                           !.note = <<item.change.metadata[1].note>>]
             metadata ==
                IF item.change.owner = <<>> THEN patched
                ELSE [patched EXCEPT !.ignored_updates = <<"owner">>]
             updated ==
                [node EXCEPT !.metadata = metadata,
                             !.confidence = IF item.change.confidence = <<>> THEN @
                                            ELSE item.change.confidence[1]]
         IN  [g |-> Backpropagate(NodeStorePut(st.g, updated.memory, updated), item.id),
              processed |-> Append(st.processed, item.id)]

RECURSIVE PropagateFrom(_, _, _)
PropagateFrom(st, pending, i) ==
    IF i > Len(pending) THEN st
    ELSE Bind(PropagateOne(st, pending[i]), LAMBDA next : PropagateFrom(next, pending, i + 1))

PropagatePending(g) ==
    Bind(PropagateFrom([g |-> [g EXCEPT !.pending = <<>>], processed |-> <<>>], g.pending, 1),
         LAMBDA st : IF st.processed # <<>> THEN [st EXCEPT !.g = BumpRevision(@)] ELSE st)

(***************************************************************************)
(* kg/graph.py: save and load.  The snapshot is the sequence of its node   *)
(* lines, of its edge lines and the items of its pending line; a JSON list *)
(* is kept apart from a tuple as [list |-> ..].                            *)
(***************************************************************************)
\* sorted(seq, key=..) for a key order given as Less; the sort is stable
SortedBy(seq, Less(_, _)) ==
    LET rank(i) == 1 + Cardinality({j \in 1..Len(seq) :
                          \/ Less(seq[j], seq[i])
                          \/ ~Less(seq[i], seq[j]) /\ j < i})
    IN  [p \in 1..Len(seq) |-> seq[CHOOSE i \in 1..Len(seq) : rank(i) = p]]

\* Python's order on the strings the model sorts
MemoryIndex(memory) == IF memory = "long_term" THEN 1 ELSE 2
RelationIndex(relation) ==
    CASE relation = "conflicts_with" -> 1
      [] relation = "contradicts" -> 2
      [] OTHER -> 3

LexLess(x, y) ==
    \E k \in 1..Len(x) : x[k] < y[k] /\ \A j \in 1..(k - 1) : x[j] = y[j]

NodeKeyLess(left, right) ==
    LexLess(<<MemoryIndex(left.memory), IdIndex(left.id)>>,
            <<MemoryIndex(right.memory), IdIndex(right.id)>>)
EdgeKey(edge) ==
    <<MemoryIndex(edge.memory), IdIndex(edge.source), IdIndex(edge.target),
      RelationIndex(edge.relation)>>
EdgeKeyLess(left, right) == LexLess(EdgeKey(left), EdgeKey(right))
ItemLess(left, right) == IdIndex(left.id) < IdIndex(right.id)

SerialiseNode(node) == [node EXCEPT !.embedding = [list |-> @]]
NodeFromPayload(payload) ==
    [payload EXCEPT !.embedding = @.list, !.memory = NormaliseMemory(@)]
SerialiseEdge(edge) == edge
EdgeFromPayload(payload) == [payload EXCEPT !.memory = NormaliseMemory(@)]

SaveGraph(g) ==
    [exists |-> TRUE,
     nodes |-> LET sorted == SortedBy(Nodes(g), NodeKeyLess)
               IN  [i \in 1..Len(sorted) |-> SerialiseNode(sorted[i])],
     edges |-> LET sorted == SortedBy(Edges(g), EdgeKeyLess)
               IN  [i \in 1..Len(sorted) |-> SerialiseEdge(sorted[i])],
     pending |-> SortedBy(g.pending, ItemLess)]

RECURSIVE LoadNodes(_, _, _)
LoadNodes(g, lines, i) ==
    IF i > Len(lines) THEN g
    ELSE Bind(NodeFromPayload(lines[i]), LAMBDA node :
            LoadNodes(NodeStorePut(g, node.memory, node), lines, i + 1))

LoadEdgesSkippingLongTerm(g, lines) ==
    [g EXCEPT !.oe = SelectSeq([i \in 1..Len(lines) |-> EdgeFromPayload(lines[i])],
                               LAMBDA edge : edge.memory # "long_term")]

LoadEdges(g, lines) ==
    LET read == [i \in 1..Len(lines) |-> EdgeFromPayload(lines[i])]
    IN  [g EXCEPT !.oe = SelectSeq(read, LAMBDA edge : edge.memory # "long_term"),
                  !.le = SelectSeq(read, LAMBDA edge : edge.memory = "long_term")]

\* load leaves _revision and _verification_cache as they are
LoadGraph(g, snapshot) ==
    IF ~snapshot.exists THEN [g |-> g, result |-> FALSE]
    ELSE [g |-> [LoadEdges(LoadNodes([g EXCEPT !.op = <<>>, !.lt = <<>>,
                                               !.oe = <<>>, !.le = <<>>],
                                     snapshot.nodes, 1),
                           snapshot.edges)
                   EXCEPT !.pending = snapshot.pending],
          result |-> TRUE]

(***************************************************************************)
(* kg/graph.py: verification.  critics holds the names in _critics and in  *)
(* _authorities, in registration order; the critic registered under a name *)
(* scores a node by its confidence, the authority returns a mapping with   *)
(* the score 10 for a node that has an embedding and 0 otherwise.          *)
(***************************************************************************)
CriticNames == {"confident"}
AuthorityNames == {"registry"}

CriticScore(name, node) == node.confidence
AuthorityPayload(name, node) ==
    [score |-> IF node.embedding # <<>> THEN 10 ELSE 0, origin |-> name]

\* _normalise_authority_payload for a mapping: the score and the rest
NormaliseAuthorityPayload(payload) ==
    [score |-> payload.score, details |-> [origin |-> payload.origin]]

\* dict[name] = value on the names of a registry kept in insertion order
Registered(names, name) ==
    IF name \in SeqRange(names) THEN names ELSE Append(names, name)

RegisterCritic(g, registry, name) ==
    [g |-> InvalidateVerificationCache(g),
     registry |-> [registry EXCEPT !.critics = Registered(@, name)]]

RegisterAuthority(g, registry, name) ==
    [g |-> InvalidateVerificationCache(g),
     registry |-> [registry EXCEPT !.authorities = Registered(@, name)]]

\* the results for one pool, name by name and node by node
PoolResults(names, all, Result(_, _)) ==
    [k \in 1..(Len(names) * Len(all)) |->
        Result(names[((k - 1) \div Len(all)) + 1], all[((k - 1) % Len(all)) + 1])]

ExecuteVerification(g, registry) ==
    PoolResults(registry.critics, Nodes(g),
                LAMBDA name, node :
                    [node_id |-> node.id, critic |-> name, score |-> CriticScore(name, node),
                     provenance |-> "critic", details |-> <<>>])
    \o PoolResults(registry.authorities, Nodes(g),
                   LAMBDA name, node :
                       LET payload == NormaliseAuthorityPayload(AuthorityPayload(name, node))
                       IN  [node_id |-> node.id, critic |-> name, score |-> payload.score,
                            provenance |-> "authority", details |-> <<payload.details>>])

RECURSIVE SumScores(_)
SumScores(results) ==
    IF results = <<>> THEN 0 ELSE results[1].score + SumScores(Tail(results))

\* _record_verification: the node get_node finds for an id takes the mean of
\* the scores (kept as <<sum, count>>) and the provenances of its results
RecordVerification(g, results) ==
    LET of(id) == SelectSeq(results, LAMBDA result : result.node_id = id)
        scored(store, tier) ==
            [i \in 1..Len(store) |->
                IF of(store[i].id) # <<>> /\ GetNode(g, store[i].id).memory = tier
                THEN [store[i] EXCEPT
                        !.metadata.verification_score =
                            <<<<SumScores(of(store[i].id)), Len(of(store[i].id))>>>>,
                        !.metadata.verification_sources =
                            [k \in 1..Len(of(store[i].id)) |-> of(store[i].id)[k].provenance]]
                ELSE store[i]]
    IN  [g EXCEPT !.op = scored(g.op, "operational"), !.lt = scored(g.lt, "long_term")]

\* verify_with_critics() without extra critics or authorities
VerifyWithCritics(g, registry) ==
    IF g.cache.present /\ g.cache.revision = g.rev
    THEN [g |-> g, results |-> g.cache.results]
    ELSE Bind(ExecuteVerification(g, registry), LAMBDA results :
            [g |-> RecordVerification(
                      [g EXCEPT !.cache = [present |-> TRUE, revision |-> g.rev,
                                           results |-> results]], results),
             results |-> results])

(***************************************************************************)
(* The calls made on one KnowledgeGraph.                                   *)
(***************************************************************************)
KgAssign(g) ==
    /\ operational_nodes' = g.op
    /\ long_term_nodes' = g.lt
    /\ operational_edges' = g.oe
    /\ long_term_edges' = g.le
    /\ pending_updates' = g.pending
    /\ revision' = g.rev
    /\ verification_cache' = g.cache

\* what a call was given and returned
KgCallRecord(op, arg, result) == [op |-> op, arg |-> arg, result |-> result]

MaxRevision == 4
MaxPending == 2
MaxSaves == 1

Embeddings == [a |-> <<10, 0>>, b |-> <<10, 1>>, c |-> <<10, 2>>]
MemoryArgs == {None, "Archive"}
DedupNodes ==
    {Node(id, "fact", confidence, Embeddings[id], memory) :
        id \in {"a", "b"}, confidence \in {5, 7}, memory \in {"operational", "long_term"}}
    \cup {Node("c", "fact", 9, embedding, "operational") : embedding \in {<<>>, Embeddings.c}}
DedupEdges == {Edge("a", "c", "supports", "operational"), Edge("b", "a", "supports", "long_term")}

KgAddNode(nodes, memories) ==
    /\ revision < MaxRevision
    /\ \E node \in nodes, memory \in memories :
          /\ KgAssign(AddNode(GraphValue, node, memory))
          /\ kgCall' = KgCallRecord("add_node", <<node, memory>>, None)
    /\ UNCHANGED <<critics, kgFile>>

KgPromoteNode ==
    /\ revision < MaxRevision
    /\ \E node_id \in NodeIds :
          \E r \in {PromoteNode(GraphValue, node_id)} :
             /\ KgAssign(r.g)
             /\ kgCall' = KgCallRecord("promote_node", node_id, r.result)
    /\ UNCHANGED <<critics, kgFile>>

KgAddEdge(edges) ==
    /\ revision < MaxRevision
    /\ \E edge \in edges :
          /\ KgAssign(AddEdge(GraphValue, edge, None))
          /\ kgCall' = KgCallRecord("add_edge", edge, None)
    /\ UNCHANGED <<critics, kgFile>>

KgDeduplicate ==
    /\ revision < MaxRevision
    /\ \E r \in {DeduplicateEmbeddings(GraphValue, DefaultThreshold)} :
          /\ KgAssign(r.g)
          /\ kgCall' = [op |-> "deduplicate_embeddings", arg |-> None,
                        result |-> r.duplicates, before |-> GraphValue,
                        merges |-> r.merges]
    /\ UNCHANGED <<critics, kgFile>>

KgLazyUpdate ==
    /\ Len(pending_updates) < MaxPending
    /\ \E node_id \in {"a", "b"}, changes \in Changes :
          \E r \in {LazyUpdate(GraphValue, node_id, changes)} :
             /\ KgAssign(r.g)
             /\ kgCall' = KgCallRecord("lazy_update", <<node_id, changes>>, r.raised)
    /\ UNCHANGED <<critics, kgFile>>

KgPropagatePending ==
    /\ revision < MaxRevision
    /\ \E r \in {PropagatePending(GraphValue)} :
          /\ KgAssign(r.g)
          /\ kgCall' = KgCallRecord("propagate_pending", None, r.processed)
    /\ UNCHANGED <<critics, kgFile>>

KgSave ==
    /\ kgFile.saves < MaxSaves
    /\ kgFile' = [snapshot |-> SaveGraph(GraphValue), origin |-> GraphValue,
                  saves |-> kgFile.saves + 1]
    /\ kgCall' = KgCallRecord("save", None, None)
    /\ UNCHANGED <<operational_nodes, long_term_nodes, operational_edges, long_term_edges,
                   pending_updates, revision, verification_cache, critics>>

KgLoad ==
    /\ kgCall.op # "load"
    /\ \E r \in {LoadGraph(GraphValue, kgFile.snapshot)} :
          /\ KgAssign(r.g)
          /\ kgCall' = [op |-> "load", arg |-> None, result |-> r.result,
                        replaced |-> Nodes(GraphValue) # Nodes(r.g)]
    /\ UNCHANGED <<critics, kgFile>>

KgRegisterCritic ==
    /\ \E name \in CriticNames :
          \E r \in {RegisterCritic(GraphValue, critics, name)} :
             /\ KgAssign(r.g)
             /\ critics' = r.registry
             /\ kgCall' = KgCallRecord("register_critic", name, None)
    /\ UNCHANGED kgFile

KgRegisterAuthority ==
    /\ \E name \in AuthorityNames :
          \E r \in {RegisterAuthority(GraphValue, critics, name)} :
             /\ KgAssign(r.g)
             /\ critics' = r.registry
             /\ kgCall' = KgCallRecord("register_authority", name, None)
    /\ UNCHANGED kgFile

KgVerify ==
    /\ \E r \in {VerifyWithCritics(GraphValue, critics)} :
          /\ KgAssign(r.g)
          /\ kgCall' = [op |-> "verify_with_critics", arg |-> None, result |-> r.results,
                        cached |-> verification_cache.present]
    /\ UNCHANGED <<critics, kgFile>>

KgFrame ==
    UNCHANGED <<now, journalVars, sandboxVars, runtimeVars, sessionVars, consentVars,
                componentVars>>

InitGraph ==
    /\ now = 0
    /\ entries = <<>>
    /\ file = NoFile
    /\ fileOrigin = <<>>
    /\ tampers = 0
    /\ loaded = [status |-> "none", from |-> NoFile, origin |-> <<>>, count |-> 0]
    /\ restored = <<>>
    /\ SandboxIdle
    /\ RuntimeIdle
    /\ SessionIdle
    /\ LibraryIdle

NextGraph ==
    \/ KgAddNode(DedupNodes, MemoryArgs) /\ KgFrame
    \/ KgPromoteNode /\ KgFrame
    \/ KgAddEdge(DedupEdges) /\ KgFrame
    \/ KgDeduplicate /\ KgFrame

SpecGraph == InitGraph /\ [][NextGraph]_vars

VerifyNodes ==
    {Node("a", "fact", confidence, Embeddings.a, "operational") : confidence \in {5, 7}}
    \cup {Node("b", "fact", 5, Embeddings.a, "long_term")}

NextVerify ==
    \/ KgAddNode(VerifyNodes, {None}) /\ KgFrame
    \/ KgPromoteNode /\ KgFrame
    \/ KgDeduplicate /\ KgFrame
    \/ KgRegisterCritic /\ KgFrame
    \/ KgRegisterAuthority /\ KgFrame
    \/ KgVerify /\ KgFrame
    \/ KgSave /\ KgFrame
    \/ KgLoad /\ KgFrame

SpecVerify == InitGraph /\ [][NextVerify]_vars

PersistNodes ==
    {Node("a", "fact", 5, Embeddings.a, memory) : memory \in {"operational", "long_term"}}
    \cup {Node("b", "fact", 7, <<>>, "operational")}
PersistEdges == {Edge("a", "b", "supports", "operational"), Edge("b", "a", "supports", "long_term")}

NextPersist ==
    \/ KgAddNode(PersistNodes, {None}) /\ KgFrame
    \/ KgAddEdge(PersistEdges) /\ KgFrame
    \/ KgPromoteNode /\ KgFrame
    \/ KgLazyUpdate /\ KgFrame
    \/ KgPropagatePending /\ KgFrame
    \/ KgSave /\ KgFrame
    \/ KgLoad /\ KgFrame

SpecPersist == InitGraph /\ [][NextPersist]_vars

\* lazy updates on a graph whose near-duplicate nodes may be merged away
\* while an update for them is pending
NextLazy ==
    \/ KgAddNode(DedupNodes, {None}) /\ KgFrame
    \/ KgAddEdge(DedupEdges) /\ KgFrame
    \/ KgDeduplicate /\ KgFrame
    \/ KgLazyUpdate /\ KgFrame
    \/ KgPropagatePending /\ KgFrame

SpecLazy == InitGraph /\ [][NextLazy]_vars

(***************************************************************************)
(* kg/graph.py: conflict detection.  A text is kept as the sequence of the *)
(* words re.findall(r"[\w']+", text) finds in it, in the case they are     *)
(* written in.                                                             *)
(***************************************************************************)
NegationTokens == {"not", "never", "no"}
ConflictRelations == {"contradicts", "conflicts_with"}

\* str.lower on the words the model uses
LowerToken(token) ==
    CASE token = "Sky" -> "sky"
      [] token = "Not" -> "not"
      [] OTHER -> token

LowerTokens(text) == [i \in 1..Len(text) |-> LowerToken(text[i])]

\* the tokens whose join _normalise_text returns
NormaliseText(text, drop_negation) ==
    SelectSeq(LowerTokens(text), LAMBDA token : ~(drop_negation /\ token \in NegationTokens))

Polarity(text) ==
    IF \E i \in 1..Len(text) : LowerToken(text[i]) \in NegationTokens
    THEN "negative" ELSE "positive"

\* tuple(sorted(pair)) for a pair of ids
SortedPair(pair) ==
    IF IdIndex(pair[2]) < IdIndex(pair[1]) THEN <<pair[2], pair[1]>> ELSE pair

PairLess(p, q) ==
    \/ IdIndex(p[1]) < IdIndex(q[1])
    \/ p[1] = q[1] /\ IdIndex(p[2]) < IdIndex(q[2])

\* sorted(conflicts) for a set of pairs
RECURSIVE SortedPairs(_)
SortedPairs(pairs) ==
    IF pairs = {} THEN <<>>
    ELSE LET least == CHOOSE p \in pairs : \A q \in pairs \ {p} : PairLess(p, q)
         IN  <<least>> \o SortedPairs(pairs \ {least})

ConflictQueries(g) ==
    LET conflicting == SelectSeq(Edges(g), LAMBDA edge : edge.relation \in ConflictRelations)
    IN  [i \in 1..Len(conflicting) |-> <<conflicting[i].source, conflicting[i].target>>]

\* the pairs the text heuristic adds: same non-empty normalised text, one
\* negative and one positive
TextConflicts(g) ==
    LET all == Nodes(g)
        key(i) == NormaliseText(all[i].text, TRUE)
    IN  {SortedPair(<<all[n].id, all[p].id>>) :
            <<n, p>> \in {<<i, j>> \in (1..Len(all)) \X (1..Len(all)) :
                            /\ key(i) # <<>>
                            /\ key(i) = key(j)
                            /\ Polarity(all[i].text) = "negative"
                            /\ Polarity(all[j].text) = "positive"}}

DetectConflictsEdgesAsGiven(g) ==
    SortedPairs({ConflictQueries(g)[i] : i \in 1..Len(ConflictQueries(g))}
                \cup TextConflicts(g))

DetectConflicts(g) ==
    SortedPairs({SortedPair(ConflictQueries(g)[i]) : i \in 1..Len(ConflictQueries(g))}
                \cup TextConflicts(g))

Texts ==
    {<<"Sky", "blue">>, <<"sky", "not", "blue">>, <<"blue", "never", "sky">>, <<"Not">>}
ConflictNodes ==
    {Node(id, text, 5, <<>>, "operational") : id \in {"a", "b"}, text \in Texts}
ConflictEdges ==
    {Edge("b", "a", "contradicts", "operational"), Edge("a", "c", "supports", "operational"),
     Edge("c", "b", "conflicts_with", "long_term")}

KgDetectConflicts ==
    /\ kgCall.op # "none"
    /\ kgCall' = [op |-> "detect_conflicts", arg |-> None,
                  result |-> DetectConflicts(GraphValue), before |-> GraphValue,
                  again |-> kgCall.op = "detect_conflicts",
                  previous |-> IF kgCall.op = "detect_conflicts" THEN kgCall.result ELSE <<>>]
    /\ UNCHANGED <<operational_nodes, long_term_nodes, operational_edges, long_term_edges,
                   pending_updates, revision, verification_cache, critics, kgFile>>

NextConflicts ==
    \/ KgAddNode(ConflictNodes, MemoryArgs) /\ KgFrame
    \/ KgAddEdge(ConflictEdges) /\ KgFrame
    \/ KgDetectConflicts /\ KgFrame

SpecConflicts == InitGraph /\ [][NextConflicts]_vars

(***************************************************************************)
(* privacy/consent.py: the consent records of PrivacyOperator.             *)
(***************************************************************************)
Layers == [baseline |-> [scope |-> {"text"}, default_action |-> "allow"],
           strict |-> [scope |-> {"audio", "text"}, default_action |-> "deny"]]
LayerNames == {"baseline", "strict"}
TagLists == {<<"audio">>, <<"text">>, <<"audio", "text">>, <<"text", "text">>}

\* _zk_proof hashes "user:data_type:action"; the proof is kept as the triple
ZkProof(user_id, data_type, action) == <<user_id, data_type, action>>

\* self._records.setdefault(user_id, ConsentRecord(user_id=user_id))
SetDefault(consent, user_id, t) ==
    IF consent[user_id].present THEN consent[user_id]
    ELSE [present |-> TRUE, allowed |-> {}, denied |-> {},
          proofs |-> [d \in DataTypes |-> <<>>], updated_at |-> t]

GrantKeepingDenied(record, user_id, data_type) ==
    [record EXCEPT !.allowed = @ \cup {data_type},
                   !.proofs[data_type] = ZkProof(user_id, data_type, "allow")]

GrantOne(record, user_id, data_type) ==
    [record EXCEPT !.allowed = @ \cup {data_type},
                   !.denied = @ \ {data_type},
                   !.proofs[data_type] = ZkProof(user_id, data_type, "allow")]

DenyOne(record, user_id, data_type) ==
    [record EXCEPT !.denied = @ \cup {data_type},
                   !.allowed = @ \ {data_type},
                   !.proofs[data_type] = ZkProof(user_id, data_type, "deny")]

RECURSIVE GrantFrom(_, _, _, _)
GrantFrom(record, user_id, data_types, i) ==
    IF i > Len(data_types) THEN record
    ELSE GrantFrom(GrantOne(record, user_id, data_types[i]), user_id, data_types, i + 1)

RECURSIVE DenyFrom(_, _, _, _)
DenyFrom(record, user_id, data_types, i) ==
    IF i > Len(data_types) THEN record
    ELSE DenyFrom(DenyOne(record, user_id, data_types[i]), user_id, data_types, i + 1)

Grant(consent, user_id, data_types, t) ==
    [consent EXCEPT ![user_id] =
        [GrantFrom(SetDefault(consent, user_id, t), user_id, data_types, 1)
           EXCEPT !.updated_at = t]]

Deny(consent, user_id, data_types, t) ==
    [consent EXCEPT ![user_id] =
        [DenyFrom(SetDefault(consent, user_id, t), user_id, data_types, 1)
           EXCEPT !.updated_at = t]]

\* self._layers[layer.name] = layer: a new name goes last, a known one keeps
\* its place
RegisterLayer(registered, name) ==
    IF \E i \in 1..Len(registered) : registered[i] = name THEN registered
    ELSE Append(registered, name)

\* the first registered layer whose scope holds the data type, None without
RECURSIVE LayerFrom(_, _, _)
LayerFrom(registered, data_type, i) ==
    IF i > Len(registered) THEN None
    ELSE IF data_type \in Layers[registered[i]].scope THEN registered[i]
    ELSE LayerFrom(registered, data_type, i + 1)

LayerFor(registered, data_type) == LayerFrom(registered, data_type, 1)

IsAllowed(consent, registered, user_id, data_type) ==
    IF ~consent[user_id].present THEN FALSE
    ELSE IF data_type \in consent[user_id].denied THEN FALSE
    ELSE IF data_type \in consent[user_id].allowed THEN TRUE
    ELSE IF LayerFor(registered, data_type) # None
         THEN Layers[LayerFor(registered, data_type)].default_action = "allow"
         ELSE FALSE

Enforce(consent, registered, user_id, requested) ==
    SelectSeq(requested, LAMBDA data_type : IsAllowed(consent, registered, user_id, data_type))

\* which call named the data type last, and whether some call took back
\* what an earlier one had said
Named(last, user_id, data_types, call) ==
    [last EXCEPT ![user_id] =
        [d \in DataTypes |->
            IF d \in SeqRange(data_types)
            THEN [call |-> call, reversed |-> @[d].reversed \/ @[d].call \notin {"none", call}]
            ELSE @[d]]]

ConsentFrame ==
    UNCHANGED <<journalVars, sandboxVars, runtimeVars, sessionVars, kgVars, componentVars>>

DoConsentGrant ==
    /\ \E user_id \in ConsentUsers, data_types \in TagLists :
          /\ records' = Grant(records, user_id, data_types, now)
          /\ lastNamed' = Named(lastNamed, user_id, data_types, "grant")
    /\ UNCHANGED <<now, layers>>
    /\ ConsentFrame

DoConsentDeny ==
    /\ \E user_id \in ConsentUsers, data_types \in TagLists :
          /\ records' = Deny(records, user_id, data_types, now)
          /\ lastNamed' = Named(lastNamed, user_id, data_types, "deny")
    /\ UNCHANGED <<now, layers>>
    /\ ConsentFrame

DoRegisterLayer ==
    /\ \E name \in LayerNames : layers' = RegisterLayer(layers, name)
    /\ UNCHANGED <<now, records, lastNamed>>
    /\ ConsentFrame

NextConsent ==
    \/ Tick
    \/ DoConsentGrant
    \/ DoConsentDeny
    \/ DoRegisterLayer

\* PrivacyOperator() next to a fresh graph and an idle runtime
InitConsent == InitGraph

SpecConsent == InitConsent /\ [][NextConsent]_vars

(***************************************************************************)
(* skills/store.py: SkillStore called directly (register,                  *)
(* authorize_execution, enforce_policy and the audit log).                 *)
(***************************************************************************)
MaxAudit == 2

StoreSkills == {"writer", "analyst", "deployer"}
Actors == {"user-1"}

\* the permission strings of the manifests, in the order sorted() gives them
ScopeOrder == <<"fs.read:tmp", "net.read:whitelist", "net.write:api">>
ScopeSet == {ScopeOrder[i] : i \in 1..Len(ScopeOrder)}
SortedScopes(scopes) == SelectSeq(ScopeOrder, LAMBDA scope : scope \in scopes)

ContextTags == {"pii", "audit", "trace"}

\* SkillStore.authorize_execution: the audit log afterwards, the exception
\* raised ("none" when the call returns) and the list returned
AuthorizeWithoutDenyAudit(audit, registered, name, granted_scopes, actor) ==
    IF name \notin registered
    THEN [audit |-> audit, raised |-> "KeyError", result |-> <<>>]
    ELSE LET required == Manifest(name).permissions
             missing == SortedScopes(required \ granted_scopes)
         IN  IF missing # <<>>
             THEN [audit |-> audit, raised |-> "SkillPolicyViolation", result |-> <<>>]
             ELSE [audit |-> RecordAudit(audit, name, "allow", actor,
                                         [granted |-> SortedScopes(required)]),
                   raised |-> "none", result |-> SortedScopes(required)]

AuthorizeExecution(audit, registered, name, granted_scopes, actor) ==
    IF name \notin registered
    THEN [audit |-> audit, raised |-> "KeyError", result |-> <<>>]
    ELSE LET required == Manifest(name).permissions
             missing == SortedScopes(required \ granted_scopes)
         IN  IF missing # <<>>
             THEN [audit |-> RecordAudit(audit, name, "deny", actor,
                                         [missing_permissions |-> missing]),
                   raised |-> "SkillPolicyViolation", result |-> <<>>]
             ELSE [audit |-> RecordAudit(audit, name, "allow", actor,
                                         [granted |-> SortedScopes(required)]),
                   raised |-> "none", result |-> SortedScopes(required)]

\* SkillStore.enforce_policy with its audit record: result is <<policy, rule>>
\* of the SkillPolicyViolation raised, <<>> when the call returns
EnforcePolicyAudited(audit, registered, name, context_tags, actor) ==
    IF name \notin registered
    THEN [audit |-> audit, raised |-> "KeyError", result |-> <<>>]
    ELSE LET violation == EnforcePolicy(name, context_tags)
         IN  IF violation # <<>>
             THEN [audit |-> RecordAudit(audit, name, "deny", actor,
                                         [policy |-> violation[1], rule |-> violation[2]]),
                   raised |-> "SkillPolicyViolation", result |-> violation]
             ELSE [audit |-> RecordAudit(audit, name, "allow", actor,
                                         [policies |-> Manifest(name).policy]),
                   raised |-> "none", result |-> <<>>]

StoreFrame ==
    UNCHANGED <<now, journalVars, sandboxVars, sessionVars, kgVars, consentVars, cacheVars,
                iotVars, workflowVars, learnerVars, streamVars, plannerVars,
                consentAllowed, plannerSkills, cacheOn, offlineCache, ragCache, ragCounts, learnerOn,
                stages, profileCount, calls, resp, prevResp>>

\* SkillStore.register of a valid manifest
StoreRegister ==
    /\ \E name \in StoreSkills :
          /\ storeSkills' = storeSkills \cup {name}
          /\ storeCall' = [op |-> "register", name |-> name]
    /\ UNCHANGED auditLog
    /\ StoreFrame

StoreAuthorize ==
    /\ Len(auditLog) < MaxAudit
    /\ \E name \in StoreSkills, granted_scopes \in SUBSET ScopeSet, actor \in Actors :
          \E r \in {AuthorizeExecution(auditLog, storeSkills, name, granted_scopes, actor)} :
             /\ auditLog' = r.audit
             /\ storeCall' = [op |-> "authorize", name |-> name, arg |-> granted_scopes,
                              actor |-> actor, before |-> auditLog, raised |-> r.raised,
                              result |-> r.result]
    /\ UNCHANGED storeSkills
    /\ StoreFrame

StoreEnforce ==
    /\ Len(auditLog) < MaxAudit
    /\ \E name \in StoreSkills, context_tags \in SUBSET ContextTags, actor \in Actors :
          \E r \in {EnforcePolicyAudited(auditLog, storeSkills, name, context_tags, actor)} :
             /\ auditLog' = r.audit
             /\ storeCall' = [op |-> "enforce", name |-> name, arg |-> context_tags,
                              actor |-> actor, before |-> auditLog, raised |-> r.raised,
                              result |-> r.result]
    /\ UNCHANGED storeSkills
    /\ StoreFrame

InitStore == InitGraph

NextStore ==
    \/ StoreRegister
    \/ StoreAuthorize
    \/ StoreEnforce

SpecStore == InitStore /\ [][NextStore]_vars

(***************************************************************************)
(* runtime/cache.py: OfflineCache called directly, with the clock as its   *)
(* time provider and ttl = CacheTtl.                                       *)
(***************************************************************************)
CacheValues == {"v1", "v2"}

CacheFrame ==
    UNCHANGED <<journalVars, sandboxVars, sessionVars, kgVars, consentVars, storeVars,
                iotVars, workflowVars, learnerVars, streamVars, plannerVars,
                consentAllowed, storeSkills, plannerSkills, cacheOn, ragCache, ragCounts, learnerOn,
                auditLog, stages, profileCount, calls, resp, prevResp>>

\* OfflineCache.put(key, value)
OfflinePut ==
    /\ \E key \in CacheKeys, value \in CacheValues :
          /\ offlineCache' = CachePut(offlineCache, key, value, now)
          /\ cachePuts' = [cachePuts EXCEPT ![key] =
                              [present |-> TRUE, value |-> value, at |-> now]]
          /\ cacheCall' = [op |-> "put", key |-> key, at |-> now]
    /\ UNCHANGED now
    /\ CacheFrame

\* OfflineCache.get(key): prune, then the value of the entry, <<>> for None
OfflineGet ==
    /\ \E key \in CacheKeys :
          \E pruned \in {CachePrune(offlineCache, CacheTtl, now)} :
             /\ offlineCache' = pruned
             /\ cacheCall' = [op |-> "get", key |-> key, at |-> now,
                              result |-> IF CacheHas(pruned, key)
                                         THEN <<CacheValue(pruned, key)>> ELSE <<>>]
    /\ UNCHANGED <<now, cachePuts>>
    /\ CacheFrame

\* OfflineCache.size(): prune, then len(self._entries)
OfflineSize ==
    /\ \E pruned \in {CachePrune(offlineCache, CacheTtl, now)} :
          /\ offlineCache' = pruned
          /\ cacheCall' = [op |-> "size", at |-> now, result |-> Cardinality(pruned)]
    /\ UNCHANGED <<now, cachePuts>>
    /\ CacheFrame

InitCache == InitGraph

NextCache ==
    \/ Tick
    \/ OfflinePut
    \/ OfflineGet
    \/ OfflineSize

SpecCache == InitCache /\ [][NextCache]_vars

(***************************************************************************)
(* runtime/iot.py: an IoTBridge used directly, built with the policy       *)
(* IotPolicy, the journal `entries` and the sensor hub `sensor_hub`, if    *)
(* one is attached.  Commands carry no parameters.                         *)
(***************************************************************************)
MaxIotCalls == 3
MaxReleaseCalls == 4

IotPolicy ==
    [allowlist |-> [lamp |-> {"on", "off"}, lock |-> {"open"}],
     confirmation_required |-> {<<"lock", "open">>},
     max_actions_per_session |-> 2, max_batch_size |-> 2, max_deferred_actions |-> 3]

\* IoTPolicy.is_allowed and needs_confirmation (the token "device:action" is
\* kept as the pair)
PolicyAllows(device_id, action) ==
    /\ device_id \in DOMAIN IotPolicy.allowlist
    /\ action \in IotPolicy.allowlist[device_id]
NeedsConfirmation(device_id, action) ==
    <<device_id, action>> \in IotPolicy.confirmation_required

IotCommand(device_id, action, requires_confirmation) ==
    [device_id |-> device_id, action |-> action,
     requires_confirmation |-> requires_confirmation]

\* the confirmation callbacks: none given, one that agrees, one that declines
Confirmers == {"none", "yes", "no"}
Confirms(confirmer, command) == confirmer = "yes"

NoExtra == [k \in {} |-> 0]

\* IoTBridge._journal: the payload, updated with extra, appended
IotJournal(es, event, session_id, command, extra, t) ==
    JournalAppend(es, event,
                  extra @@ [session_id |-> session_id, device_id |-> command.device_id,
                            action |-> command.action],
                  t)

EarlierRecord(a, b) == a.timestamp < b.timestamp

\* SensorHub.ingest(event): appended, then sorted by timestamp
Ingest(events, event) == SortedBy(Append(events, event), EarlierRecord)

\* _mirror_to_sensor_hub that ingests the event twice
MirrorTwice(r, session_id, command, t) ==
    IF ~r.hub.attached THEN r
    ELSE LET event == [source |-> session_id,
                       signal_type |-> <<"iot", command.device_id, command.action>>,
                       value |-> 1, timestamp |-> t]
         IN  [r EXCEPT !.hub.events = Ingest(Ingest(@, event), event),
                       !.es = IotJournal(@, "iot_sensor_sync", session_id, command,
                                         [signal_type |-> event.signal_type,
                                          value |-> event.value,
                                          timestamp |-> event.timestamp], t)]

\* IoTBridge._mirror_to_sensor_hub for a command without parameters: the
\* value is 1.0, the timestamp time() and the signal "iot::device::action"
MirrorToSensorHub(r, session_id, command, t) ==
    IF ~r.hub.attached THEN r
    ELSE LET event == [source |-> session_id,
                       signal_type |-> <<"iot", command.device_id, command.action>>,
                       value |-> 1, timestamp |-> t]
         IN  [r EXCEPT !.hub.events = Ingest(@, event),
                       !.es = IotJournal(@, "iot_sensor_sync", session_id, command,
                                         [signal_type |-> event.signal_type,
                                          value |-> event.value,
                                          timestamp |-> event.timestamp], t)]

\* IoTBridge._execute_command on a run r = [counts, es, acks, executed,
\* raised, hub]: a run that has raised does nothing more
ExecuteWithoutRateLimit(r, session_id, command, confirmer, t) ==
    IF r.raised # "none" THEN r
    ELSE IF ~PolicyAllows(command.device_id, command.action)
    THEN [r EXCEPT !.es = IotJournal(@, "iot_denied", session_id, command, NoExtra, t),
                   !.raised = "PermissionError"]
    ELSE IF /\ command.requires_confirmation
               \/ NeedsConfirmation(command.device_id, command.action)
            /\ (confirmer = "none" \/ ~Confirms(confirmer, command))
    THEN [r EXCEPT !.es = IotJournal(@, "iot_unconfirmed", session_id, command, NoExtra, t),
                   !.raised = "PermissionError"]
    ELSE LET count == r.counts[session_id] + 1
             acknowledgement ==
                [device_id |-> command.device_id, action |-> command.action,
                 status |-> "executed", session_id |-> session_id, count |-> count]
         IN  MirrorToSensorHub(
                [r EXCEPT !.counts[session_id] = count,
                          !.es = IotJournal(@, "iot_executed", session_id, command,
                                            acknowledgement, t),
                          !.acks = Append(@, acknowledgement),
                          !.executed = Append(@, [session_id |-> session_id,
                                                  command |-> command])],
                session_id, command, t)

ExecuteCommand(r, session_id, command, confirmer, t) ==
    IF r.raised # "none" THEN r
    ELSE IF ~PolicyAllows(command.device_id, command.action)
    THEN [r EXCEPT !.es = IotJournal(@, "iot_denied", session_id, command, NoExtra, t),
                   !.raised = "PermissionError"]
    ELSE IF r.counts[session_id] + 1 > IotPolicy.max_actions_per_session
    THEN [r EXCEPT !.es = IotJournal(@, "iot_rate_limited", session_id, command, NoExtra, t),
                   !.raised = "RuntimeError"]
    ELSE IF /\ command.requires_confirmation
               \/ NeedsConfirmation(command.device_id, command.action)
            /\ (confirmer = "none" \/ ~Confirms(confirmer, command))
    THEN [r EXCEPT !.es = IotJournal(@, "iot_unconfirmed", session_id, command, NoExtra, t),
                   !.raised = "PermissionError"]
    ELSE LET count == r.counts[session_id] + 1
             acknowledgement ==
                [device_id |-> command.device_id, action |-> command.action,
                 status |-> "executed", session_id |-> session_id, count |-> count]
         IN  MirrorToSensorHub(
                [r EXCEPT !.counts[session_id] = count,
                          !.es = IotJournal(@, "iot_executed", session_id, command,
                                            acknowledgement, t),
                          !.acks = Append(@, acknowledgement),
                          !.executed = Append(@, [session_id |-> session_id,
                                                  command |-> command])],
                session_id, command, t)

\* a loop of _execute_command calls over records [session_id, command]
RECURSIVE ExecuteAll(_, _, _, _, _)
ExecuteAll(r, items, i, confirmer, t) ==
    IF i > Len(items) THEN r
    ELSE ExecuteAll(ExecuteCommand(r, items[i].session_id, items[i].command, confirmer, t),
                    items, i + 1, confirmer, t)

\* the run a call of the bridge starts from
Run(counts, es) ==
    [counts |-> counts, es |-> es, acks |-> <<>>, executed |-> <<>>, raised |-> "none",
     hub |-> sensor_hub]

\* an optional float argument: <<>> is None and stands for time()
OrTime(optional, t) == IF optional = <<>> THEN t ELSE optional[1]

\* IoTBridge.dispatch
Dispatch(counts, queue, es, session_id, command, confirmer, t) ==
    [run |-> ExecuteCommand(Run(counts, es), session_id, command, confirmer, t),
     deferred |-> queue]

\* IoTBridge.dispatch_batch
DispatchBatch(counts, queue, es, session_id, commands, confirmer, t) ==
    IF Len(commands) > IotPolicy.max_batch_size
    THEN [run |-> [Run(counts, es) EXCEPT
                     !.es = IotJournal(@, "iot_batch_rejected", session_id, commands[1],
                                       [size |-> Len(commands)], t),
                     !.raised = "RuntimeError"],
          deferred |-> queue]
    ELSE [run |-> ExecuteAll(Run(counts, es),
                             [i \in 1..Len(commands) |->
                                [session_id |-> session_id, command |-> commands[i]]],
                             1, confirmer, t),
          deferred |-> queue]

\* IoTBridge.queue_delayed
QueueDelayed(counts, queue, es, session_id, command, available_at, t) ==
    IF Len(queue) >= IotPolicy.max_deferred_actions
    THEN [run |-> [Run(counts, es) EXCEPT
                     !.es = IotJournal(@, "iot_queue_overflow", session_id, command,
                                       NoExtra, t),
                     !.raised = "RuntimeError"],
          deferred |-> queue]
    ELSE LET timestamp == OrTime(available_at, t)
         IN  [run |-> [Run(counts, es) EXCEPT
                         !.es = IotJournal(@, "iot_queued", session_id, command,
                                           [available_at |-> timestamp], t)],
              deferred |-> Append(queue, [timestamp |-> timestamp,
                                          session_id |-> session_id,
                                          command |-> command])]

\* IoTBridge.release_delayed
ReleaseInQueueOrder(counts, queue, es, upto, confirmer, t) ==
    IF queue = <<>> THEN [run |-> Run(counts, es), deferred |-> queue]
    ELSE LET deadline == OrTime(upto, t)
             ready == SelectSeq(queue, LAMBDA record : record.timestamp <= deadline)
             remainder == SelectSeq(queue, LAMBDA record : ~(record.timestamp <= deadline))
         IN  Bind(ExecuteAll(Run(counts, es), ready, 1, confirmer, t), LAMBDA r :
                [run |-> IF r.raised = "none" /\ r.acks # <<>>
                         THEN [r EXCEPT !.es = IotJournal(@, "iot_release",
                                                          r.acks[1].session_id,
                                                          ready[1].command,
                                                          [released |-> Len(r.acks)], t)]
                         ELSE r,
                 deferred |-> remainder])

ReleaseDelayed(counts, queue, es, upto, confirmer, t) ==
    IF queue = <<>> THEN [run |-> Run(counts, es), deferred |-> queue]
    ELSE LET deadline == OrTime(upto, t)
             ready == SelectSeq(queue, LAMBDA record : record.timestamp <= deadline)
             remainder == SelectSeq(queue, LAMBDA record : ~(record.timestamp <= deadline))
         IN  Bind(ExecuteAll(Run(counts, es), SortedBy(ready, EarlierRecord), 1, confirmer, t),
                  LAMBDA r :
                [run |-> IF r.raised = "none" /\ r.acks # <<>>
                         THEN [r EXCEPT !.es = IotJournal(@, "iot_release",
                                                          r.acks[1].session_id,
                                                          ready[1].command,
                                                          [released |-> Len(r.acks)], t)]
                         ELSE r,
                 deferred |-> remainder])

\* the loop of merge_after_offline that keeps the first command of every
\* signature (device_id, action, parameters)
RECURSIVE Deduped(_, _, _)
Deduped(items, i, seen) ==
    IF i > Len(items) THEN <<>>
    ELSE LET signature == <<items[i].command.device_id, items[i].command.action>>
         IN  IF signature \in seen THEN Deduped(items, i + 1, seen)
             ELSE <<items[i].command>> \o Deduped(items, i + 1, seen \cup {signature})

\* IoTBridge.merge_after_offline
MergeAfterOffline(counts, queue, es, session_id, offline_commands, confirmer, t) ==
    LET carried == SelectSeq(queue, LAMBDA record : record.session_id = session_id)
        remaining == SelectSeq(queue, LAMBDA record : record.session_id # session_id)
        combined == carried \o [i \in 1..Len(offline_commands) |->
                                  [timestamp |-> t, session_id |-> session_id,
                                   command |-> offline_commands[i]]]
        deduped == Deduped(SortedBy(combined, EarlierRecord), 1, {})
        reference == IF deduped # <<>> THEN deduped[1]
                     ELSE IF offline_commands # <<>> THEN offline_commands[1]
                     ELSE carried[1].command
    IN  Bind(ExecuteAll(Run(counts, es),
                        [i \in 1..Len(deduped) |->
                           [session_id |-> session_id, command |-> deduped[i]]],
                        1, confirmer, t),
             LAMBDA r :
           [run |-> IF r.raised = "none"
                       /\ (carried # <<>> \/ offline_commands # <<>> \/ deduped # <<>>)
                    THEN [r EXCEPT !.es = IotJournal(@, "iot_offline_merge", session_id,
                                                     reference,
                                                     [merged |-> Len(deduped),
                                                      carried |-> Len(carried),
                                                      incoming |-> Len(offline_commands)], t)]
                    ELSE r,
            deferred |-> remaining])

\* IoTBridge.reset_session
ResetBridgeSession(counts, queue, es, session_id) ==
    [run |-> Run([counts EXCEPT ![session_id] = 0], es),
     deferred |-> SelectSeq(queue, LAMBDA record : record.session_id # session_id)]

IotCommands ==
    {IotCommand("lamp", "on", FALSE), IotCommand("lamp", "on", TRUE),
     IotCommand("lock", "open", FALSE), IotCommand("cam", "on", FALSE)}

IotBatches ==
    { <<>>,
      <<IotCommand("lamp", "on", FALSE), IotCommand("lock", "open", FALSE)>>,
      <<IotCommand("lamp", "on", FALSE), IotCommand("lamp", "on", TRUE)>>,
      <<IotCommand("lamp", "on", FALSE), IotCommand("lamp", "off", FALSE),
        IotCommand("lamp", "on", FALSE)>> }

OptionalTimes == {<<>>, <<1>>}

\* how many of the executed records belong to the session
ExecutedFor(executed, session_id) ==
    Len(SelectSeq(executed, LAMBDA item : item.session_id = session_id))

\* the assignments every bridge call makes from its outcome
IotAssign(op, args, outcome) ==
    /\ session_counts' = outcome.run.counts
    /\ deferred' = outcome.deferred
    /\ entries' = outcome.run.es
    /\ sensor_hub' = outcome.run.hub
    /\ iotExecuted' = [s \in SessionIds |->
                          IF op = "reset_session" /\ s = args.session_id THEN 0
                          ELSE iotExecuted[s] + ExecutedFor(outcome.run.executed, s)]
    /\ iotCall' = [op |-> op, args |-> args, at |-> now, before |-> deferred,
                   acks |-> outcome.run.acks, executed |-> outcome.run.executed,
                   raised |-> outcome.run.raised, n |-> iotCall.n + 1]
    /\ UNCHANGED <<now, file, fileOrigin, tampers, loaded, restored, sandboxVars, runtimeVars,
                   sessionVars, kgVars, consentVars, storeVars, cacheVars, workflowVars,
                   learnerVars, streamVars, plannerVars>>

IotDispatch(limit) ==
    /\ iotCall.n < limit
    /\ \E session_id \in SessionIds, command \in IotCommands, confirmer \in Confirmers :
          IotAssign("dispatch",
                    [session_id |-> session_id, command |-> command, confirmer |-> confirmer],
                    Dispatch(session_counts, deferred, entries, session_id, command,
                             confirmer, now))

IotDispatchBatch(limit) ==
    /\ iotCall.n < limit
    /\ \E session_id \in SessionIds, commands \in IotBatches, confirmer \in Confirmers :
          IotAssign("dispatch_batch",
                    [session_id |-> session_id, commands |-> commands,
                     confirmer |-> confirmer],
                    DispatchBatch(session_counts, deferred, entries, session_id, commands,
                                  confirmer, now))

IotQueueDelayed(limit) ==
    /\ iotCall.n < limit
    /\ \E session_id \in SessionIds, command \in IotCommands,
          available_at \in OptionalTimes :
          IotAssign("queue_delayed",
                    [session_id |-> session_id, command |-> command,
                     available_at |-> available_at],
                    QueueDelayed(session_counts, deferred, entries, session_id, command,
                                 available_at, now))

IotReleaseDelayed(limit) ==
    /\ iotCall.n < limit
    /\ \E upto \in OptionalTimes, confirmer \in Confirmers :
          IotAssign("release_delayed", [upto |-> upto, confirmer |-> confirmer],
                    ReleaseDelayed(session_counts, deferred, entries, upto, confirmer, now))

IotMergeAfterOffline(limit) ==
    /\ iotCall.n < limit
    /\ \E session_id \in SessionIds, offline_commands \in IotBatches,
          confirmer \in Confirmers :
          IotAssign("merge_after_offline",
                    [session_id |-> session_id, offline_commands |-> offline_commands,
                     confirmer |-> confirmer],
                    MergeAfterOffline(session_counts, deferred, entries, session_id,
                                      offline_commands, confirmer, now))

IotResetSession(limit) ==
    /\ iotCall.n < limit
    /\ \E session_id \in SessionIds :
          IotAssign("reset_session", [session_id |-> session_id],
                    ResetBridgeSession(session_counts, deferred, entries, session_id))

InitIot == InitGraph

\* every call of the bridge, at time 0
NextIot ==
    \/ IotDispatch(MaxIotCalls)
    \/ IotDispatchBatch(MaxIotCalls)
    \/ IotQueueDelayed(MaxIotCalls)
    \/ IotReleaseDelayed(MaxIotCalls)
    \/ IotMergeAfterOffline(MaxIotCalls)
    \/ IotResetSession(MaxIotCalls)

SpecIot == InitIot /\ [][NextIot]_vars

\* the deferred queue alone, with longer runs
NextRelease ==
    \/ IotQueueDelayed(MaxReleaseCalls)
    \/ IotReleaseDelayed(MaxReleaseCalls)
    \/ IotResetSession(MaxReleaseCalls)

SpecRelease == InitIot /\ [][NextRelease]_vars

\* a bridge built with sensor_hub=SensorHub()
InitHub ==
    /\ now = 0
    /\ entries = <<>>
    /\ file = NoFile
    /\ fileOrigin = <<>>
    /\ tampers = 0
    /\ loaded = [status |-> "none", from |-> NoFile, origin |-> <<>>, count |-> 0]
    /\ restored = <<>>
    /\ SandboxIdle
    /\ RuntimeIdle
    /\ SessionIdle
    /\ KgIdle
    /\ ConsentIdle
    /\ ComponentIdleWith(TRUE)

NextHub ==
    \/ IotDispatch(MaxIotCalls)
    \/ IotDispatchBatch(MaxIotCalls)

SpecHub == InitHub /\ [][NextHub]_vars

(***************************************************************************)
(* runtime/workflow.py: WorkflowManager with the clock as time provider.   *)
(* A workflow is kept as its id, deadline and reminder rules; a deadline   *)
(* that is None is <<>>.                                                   *)
(***************************************************************************)
MaxWorkflows == 2

ReminderRule(offset, message) == [offset |-> offset, message |-> message]

\* workflow_id = f"wf-{next(self._id_counter):04d}", kept as the number
CreateWorkflow(all, deadline, reminders) ==
    Append(all, [id |-> Len(all) + 1, deadline |-> deadline, reminders |-> reminders])

\* the events of one workflow, rule by rule
RECURSIVE RuleEvents(_, _, _)
RuleEvents(workflow, i, t) ==
    IF i > Len(workflow.reminders) THEN <<>>
    ELSE LET scheduled == workflow.deadline[1] - workflow.reminders[i].offset
         IN  (IF scheduled <= t
              THEN <<[workflow_id |-> workflow.id,
                      message |-> workflow.reminders[i].message,
                      scheduled_for |-> scheduled]>>
              ELSE <<>>)
             \o RuleEvents(workflow, i + 1, t)

RECURSIVE CollectEvents(_, _, _)
CollectEvents(all, w, t) ==
    IF w > Len(all) THEN <<>>
    ELSE (IF all[w].deadline = <<>> THEN <<>> ELSE RuleEvents(all[w], 1, t))
         \o CollectEvents(all, w + 1, t)

\* the sort key (event.scheduled_for, event.workflow_id)
EventBefore(a, b) ==
    \/ a.scheduled_for < b.scheduled_for
    \/ a.scheduled_for = b.scheduled_for /\ a.workflow_id < b.workflow_id

\* WorkflowManager.emit_reminders(timestamp)
EmitUnsorted(all, timestamp, t) ==
    CollectEvents(all, 1, OrTime(timestamp, t))

EmitReminders(all, timestamp, t) ==
    SortedBy(CollectEvents(all, 1, OrTime(timestamp, t)), EventBefore)

Deadlines == {<<>>, <<1>>, <<2>>}
ReminderLists ==
    { <<>>,
      <<ReminderRule(1, "24h remaining")>>,
      <<ReminderRule(0, "due"), ReminderRule(2, "48h remaining")>>,
      <<ReminderRule(1, "24h remaining"), ReminderRule(1, "Reminder")>> }
EmitTimes == {<<>>, <<0>>, <<1>>, <<2>>}

WorkflowFrame ==
    UNCHANGED <<now, journalVars, sandboxVars, runtimeVars, sessionVars, kgVars, consentVars,
                storeVars, cacheVars, iotVars, learnerVars, streamVars, plannerVars>>

WfCreate ==
    /\ Len(workflows) < MaxWorkflows
    /\ \E deadline \in Deadlines, reminders \in ReminderLists :
          /\ workflows' = CreateWorkflow(workflows, deadline, reminders)
          /\ wfCall' = [op |-> "create_workflow", id |-> Len(workflows) + 1]
    /\ WorkflowFrame

WfEmitReminders ==
    /\ \E timestamp \in EmitTimes :
          wfCall' = [op |-> "emit_reminders", timestamp |-> timestamp, at |-> now,
                     events |-> EmitReminders(workflows, timestamp, now)]
    /\ UNCHANGED workflows
    /\ WorkflowFrame

InitWorkflow == InitGraph

NextWorkflow ==
    \/ WfCreate
    \/ WfEmitReminders

SpecWorkflow == InitWorkflow /\ [][NextWorkflow]_vars

(***************************************************************************)
(* runtime/self_learning.py: BackgroundSelfLearner over                    *)
(* personalization/federated.py: SecureAggregator and core/encoders.py:    *)
(* ContinualLearner.  Numbers are in hundredths and a quotient is rounded  *)
(* down to a hundredth; noise_scale is 0, as constructed.  A dict is a     *)
(* function on its keys.                                                   *)
(***************************************************************************)
MaxLearnerCalls == 3
MaxRaceCalls == 3

GetOr(d, key, default) == IF key \in DOMAIN d THEN d[key] ELSE default
SetKey(d, key, value) == [k \in DOMAIN d \cup {key} |-> IF k = key THEN value ELSE d[k]]

\* the last `limit` items: what a deque(maxlen=limit) holds
KeepLast(seq, limit) ==
    IF Len(seq) <= limit THEN seq ELSE SubSeq(seq, Len(seq) - limit + 1, Len(seq))

\* _clamp(value) with the default limits 0.0 and 1.0
Clamp(value) == IF value < 0 THEN 0 ELSE IF value > 100 THEN 100 ELSE value

Abs(value) == IF value < 0 THEN 0 - value ELSE value

\* clipped = max(min(value, update.clipping), -update.clipping)
Clipped(value, clipping) ==
    IF value > clipping THEN clipping ELSE IF value < 0 - clipping THEN 0 - clipping ELSE value

\* SecureAggregator.submit(update)
Submit(aggregator, values, clipping) ==
    [aggregator EXCEPT
        !.sums = [key \in DOMAIN aggregator.sums \cup DOMAIN values |->
                     IF key \in DOMAIN values
                     THEN GetOr(aggregator.sums, key, 0) + Clipped(values[key], clipping)
                     ELSE aggregator.sums[key]],
        !.counts = [key \in DOMAIN aggregator.counts \cup DOMAIN values |->
                       IF key \in DOMAIN values
                       THEN GetOr(aggregator.counts, key, 0) + 1
                       ELSE aggregator.counts[key]]]

\* SecureAggregator.aggregate(): the averages, and the aggregator it leaves
Aggregate(aggregator) ==
    IF DOMAIN aggregator.sums = {}
    THEN [aggregated |-> EmptyDict, aggregator |-> aggregator]
    ELSE [aggregated |->
              [key \in DOMAIN aggregator.sums |->
                  LET count == GetOr(aggregator.counts, key, 1)
                  IN  aggregator.sums[key] \div (IF count > 1 THEN count ELSE 1)],
          aggregator |-> [aggregator EXCEPT !.sums = EmptyDict, !.counts = EmptyDict]]

\* ContinualLearner.train(task_id, gradients): the learner and `updated`
Train(l, task_id, gradients) ==
    LET NewValue(name) ==
            LET previous == GetOr(l.weights, name, 0)
                importance == GetOr(l.importance, name, 0)
                correction == (l.consolidation * importance * (previous - gradients[name]))
                              \div 10000
            IN  (previous * (100 - l.consolidation)) \div 100 + gradients[name] - correction
        updated == [name \in DOMAIN gradients |-> NewValue(name)]
    IN  [learner |->
             [l EXCEPT
                 !.weights = [name \in DOMAIN l.weights \cup DOMAIN gradients |->
                                 IF name \in DOMAIN gradients THEN updated[name]
                                 ELSE l.weights[name]],
                 !.importance = [name \in DOMAIN l.importance \cup DOMAIN gradients |->
                                    IF name \in DOMAIN gradients
                                    THEN Min(100, GetOr(l.importance, name, 0)
                                                  + Abs(gradients[name]))
                                    ELSE l.importance[name]],
                 !.task_history = IF \E i \in 1..Len(l.task_history) : l.task_history[i] = task_id
                                  THEN l.task_history
                                  ELSE Append(l.task_history, task_id)],
         updated |-> updated]

\* the position of the task's aggregator in _aggregators, 0 when it has none
AggregatorPos(aggregators, task_id) ==
    IF \E i \in 1..Len(aggregators) : aggregators[i].task_id = task_id
    THEN CHOOSE i \in 1..Len(aggregators) : aggregators[i].task_id = task_id
    ELSE 0

\* enqueue: weight = max(self._min_weight, 1.0 - _clamp(float(confidence)))
\* and scaled[name] = float(value) * weight
Scaled(l, gradients, confidence) ==
    LET weight == IF l.min_weight > 100 - Clamp(confidence)
                  THEN l.min_weight ELSE 100 - Clamp(confidence)
    IN  [name \in DOMAIN gradients |-> (gradients[name] * weight) \div 100]

\* enqueue: aggregator = self._aggregators.setdefault(task_id, ...) and
\* aggregator.submit(update)
EnqueueSubmit(l, task_id, scaled) ==
    LET pos == AggregatorPos(l.aggregators, task_id)
        present == IF pos = 0
                   THEN Append(l.aggregators,
                               [task_id |-> task_id, noise_scale |-> l.noise_scale,
                                sums |-> EmptyDict, counts |-> EmptyDict])
                   ELSE l.aggregators
        at == IF pos = 0 THEN Len(present) ELSE pos
    IN  [l EXCEPT !.aggregators =
                      [present EXCEPT ![at] = Submit(present[at], scaled, l.clipping)]]

\* enqueue, one statement at a time; `call` holds the arguments and locals
EnqueueCall(l, task_id, gradients, confidence, t) ==
    IF DOMAIN gradients = {}
    THEN [pc |-> "return", task_id |-> task_id, gradients |-> gradients,
          confidence |-> confidence, scaled |-> EmptyDict, at |-> t, read |-> 0]
    ELSE [pc |-> "submit", task_id |-> task_id, gradients |-> gradients,
          confidence |-> confidence, scaled |-> Scaled(l, gradients, confidence),
          at |-> t, read |-> 0]

EnqueueAdvance(l, call) ==
    CASE call.pc = "submit" ->
             [learner |-> EnqueueSubmit(l, call.task_id, call.scaled),
              call |-> [call EXCEPT !.pc = "sample"]]
      [] call.pc = "sample" ->
             [learner |->
                  [l EXCEPT !.samples =
                       KeepLast(Append(l.samples,
                                       [task_id |-> call.task_id, gradients |-> call.gradients,
                                        confidence |-> Clamp(call.confidence),
                                        timestamp |-> call.at]),
                                l.sample_limit)],
              call |-> [call EXCEPT !.pc = "read"]]
      [] call.pc = "read" ->
             [learner |-> l,
              call |-> [call EXCEPT !.pc = "write",
                                    !.read = GetOr(l.pending_counts, call.task_id, 0)]]
      [] call.pc = "write" ->
             [learner |-> [l EXCEPT !.pending_counts =
                                        SetKey(l.pending_counts, call.task_id, call.read + 1)],
              call |-> [call EXCEPT !.pc = "return"]]

RECURSIVE RunEnqueue(_, _)
RunEnqueue(l, call) ==
    IF call.pc = "return" THEN l
    ELSE LET r == EnqueueAdvance(l, call) IN RunEnqueue(r.learner, r.call)

\* BackgroundSelfLearner.enqueue(task_id, gradients, confidence=...)
Enqueue(l, task_id, gradients, confidence, t) ==
    RunEnqueue(l, EnqueueCall(l, task_id, gradients, confidence, t))

\* step, one statement at a time.  `size` is the size of _aggregators when
\* the loop began: the dict iterator raises RuntimeError once it differs.
StepCall(l) ==
    [pc |-> "next", i |-> 1, size |-> Len(l.aggregators), pending |-> 0,
     aggregated |-> EmptyDict, updates |-> EmptyDict, raised |-> "none"]

StepAdvance(l, call, t) ==
    CASE call.pc = "next" ->
             [learner |-> l,
              call |->
                  IF Len(l.aggregators) # call.size
                  THEN [call EXCEPT !.pc = "return", !.raised = "RuntimeError"]
                  ELSE IF call.i > call.size THEN [call EXCEPT !.pc = "record"]
                  ELSE LET pending == GetOr(l.pending_counts,
                                              l.aggregators[call.i].task_id, 0)
                       IN  IF pending <= 0 THEN [call EXCEPT !.i = call.i + 1]
                           ELSE [call EXCEPT !.pc = "aggregate", !.pending = pending]]
      [] call.pc = "aggregate" ->
             LET r == Aggregate(l.aggregators[call.i])
             IN  [learner |-> [l EXCEPT !.aggregators[call.i] = r.aggregator],
                  call |-> [call EXCEPT !.pc = "zero", !.aggregated = r.aggregated]]
      [] call.pc = "zero" ->
             [learner |-> [l EXCEPT !.pending_counts =
                                        SetKey(l.pending_counts,
                                                l.aggregators[call.i].task_id, 0)],
              call |-> IF DOMAIN call.aggregated = {}
                       THEN [call EXCEPT !.pc = "next", !.i = call.i + 1]
                       ELSE [call EXCEPT !.pc = "train"]]
      [] call.pc = "train" ->
             LET r == Train(l, l.aggregators[call.i].task_id, call.aggregated)
             IN  [learner |-> r.learner,
                  call |-> [call EXCEPT !.pc = "next", !.i = call.i + 1,
                                        !.updates = SetKey(call.updates,
                                                            l.aggregators[call.i].task_id,
                                                            r.updated)]]
      [] call.pc = "record" ->
             [learner |->
                  [l EXCEPT !.history =
                       KeepLast(Append(l.history,
                                       [timestamp |-> t, updates |-> call.updates,
                                        pending |-> l.pending_counts]),
                                l.history_size)],
              call |-> [call EXCEPT !.pc = "return"]]

RECURSIVE RunStep(_, _, _)
RunStep(l, call, t) ==
    IF call.pc = "return" THEN [learner |-> l, updates |-> call.updates, raised |-> call.raised]
    ELSE LET r == StepAdvance(l, call, t) IN RunStep(r.learner, r.call, t)

\* BackgroundSelfLearner.step()
Step(l, t) == RunStep(l, StepCall(l), t)

\* a number as json.dumps writes it and json.loads reads it: the reader can
\* tell it from an object
JsonNumber(value) == [type |-> "number", value |-> value]

\* ContinualLearner.snapshot(): _weights and _importance map a parameter
\* name to a number
Snapshot(l) ==
    [weights |-> [name \in DOMAIN l.weights |-> JsonNumber(l.weights[name])],
     importance |-> [name \in DOMAIN l.importance |-> JsonNumber(l.importance[name])],
     tasks |-> l.task_history]

\* BackgroundSelfLearner.save(path): the data written
SaveData(l) ==
    [config |-> [noise_scale |-> l.noise_scale, clipping |-> l.clipping,
                 min_weight |-> l.min_weight, history_size |-> l.history_size,
                 sample_limit |-> l.sample_limit, consolidation |-> l.consolidation],
     aggregators |-> [i \in 1..Len(l.aggregators) |->
                         [task_id |-> l.aggregators[i].task_id,
                          noise_scale |-> l.aggregators[i].noise_scale,
                          sums |-> l.aggregators[i].sums,
                          counts |-> l.aggregators[i].counts]],
     pending_counts |-> l.pending_counts,
     history |-> l.history,
     samples |-> [i \in 1..Len(l.samples) |->
                     [task_id |-> l.samples[i].task_id,
                      gradients |-> l.samples[i].gradients,
                      confidence |-> l.samples[i].confidence,
                      timestamp |-> [isoformat |-> l.samples[i].timestamp]]],
     learner |-> Snapshot(l)]

\* BackgroundSelfLearner.load(path) on learner l: the learner it leaves and
\* what it raised.  The weights are read last, as a mapping of mappings:
\* mapping.items() raises AttributeError on a number.
Load(l, stored) ==
    IF ~stored.exists THEN [learner |-> l, raised |-> "none"]
    ELSE LET raw == stored.data
             history_size == IF raw.config.history_size > 0
                             THEN raw.config.history_size ELSE l.history_size
             sample_limit == IF raw.config.sample_limit > 0
                             THEN raw.config.sample_limit ELSE l.sample_limit
             before == [l EXCEPT
                           !.noise_scale = raw.config.noise_scale,
                           !.clipping = raw.config.clipping,
                           !.min_weight = raw.config.min_weight,
                           !.history_size = history_size,
                           !.history = KeepLast(raw.history, history_size),
                           !.sample_limit = sample_limit,
                           !.samples =
                               KeepLast([i \in 1..Len(raw.samples) |->
                                            [task_id |-> raw.samples[i].task_id,
                                             gradients |-> raw.samples[i].gradients,
                                             confidence |-> raw.samples[i].confidence,
                                             timestamp |-> raw.samples[i].timestamp.isoformat]],
                                        sample_limit),
                           !.pending_counts = raw.pending_counts,
                           !.aggregators =
                               [i \in 1..Len(raw.aggregators) |->
                                   [task_id |-> raw.aggregators[i].task_id,
                                    noise_scale |-> raw.aggregators[i].noise_scale,
                                    sums |-> raw.aggregators[i].sums,
                                    counts |-> raw.aggregators[i].counts]]]
             stored_weights == raw.learner.weights
         IN  IF \E task \in DOMAIN stored_weights : stored_weights[task].type # "object"
             THEN [learner |-> before, raised |-> "AttributeError"]
             ELSE [learner |->
                       [before EXCEPT
                           !.consolidation = raw.config.consolidation,
                           !.weights = [task \in DOMAIN stored_weights |->
                                           [name \in DOMAIN stored_weights[task].items |->
                                               stored_weights[task].items[name].value]]],
                   raised |-> "none"]

\* BackgroundSelfLearner.status()["pending"]
StatusPending(l) == l.pending_counts

LearnerTasks == {"t1", "t2"}
\* gradients: none, {"w": 1.0} and {"w": 3.0}
GradientChoices == {EmptyDict, [name \in {"w"} |-> 100], [name \in {"w"} |-> 300]}
\* confidence 0.5 (the default) and 1.0
Confidences == {50, 100}

LearnerFrame ==
    UNCHANGED <<now, journalVars, sandboxVars, runtimeVars, sessionVars, kgVars, consentVars,
                storeVars, cacheVars, iotVars, workflowVars, streamVars, plannerVars>>

LearnerEnqueue ==
    /\ learnerCall.n < MaxLearnerCalls
    /\ \E task_id \in LearnerTasks, gradients \in GradientChoices, confidence \in Confidences :
          /\ selfLearner' = Enqueue(selfLearner, task_id, gradients, confidence, now)
          /\ learnerCall' = [op |-> "enqueue", task_id |-> task_id, n |-> learnerCall.n + 1]
    /\ UNCHANGED <<learnerFile, enqueueThread, stepThread>>
    /\ LearnerFrame

LearnerStep ==
    /\ learnerCall.n < MaxLearnerCalls
    /\ \E r \in {Step(selfLearner, now)} :
          /\ selfLearner' = r.learner
          /\ learnerCall' = [op |-> "step", updates |-> r.updates, raised |-> r.raised,
                             n |-> learnerCall.n + 1]
    /\ UNCHANGED <<learnerFile, enqueueThread, stepThread>>
    /\ LearnerFrame

LearnerSave ==
    /\ learnerFile' = [exists |-> TRUE, data |-> SaveData(selfLearner), origin |-> selfLearner]
    /\ learnerCall' = [op |-> "save", n |-> learnerCall.n]
    /\ UNCHANGED <<selfLearner, enqueueThread, stepThread>>
    /\ LearnerFrame

\* BackgroundSelfLearner().load(path): a fresh learner reads the file
LearnerLoad ==
    /\ \E r \in {Load(FreshLearner(DefaultHistorySize, DefaultSampleLimit), learnerFile)} :
          learnerCall' = [op |-> "load", found |-> learnerFile.exists,
                          origin |-> IF learnerFile.exists THEN learnerFile.origin
                                     ELSE FreshLearner(DefaultHistorySize, DefaultSampleLimit),
                          loaded |-> r.learner, raised |-> r.raised, n |-> learnerCall.n]
    /\ UNCHANGED <<selfLearner, learnerFile, enqueueThread, stepThread>>
    /\ LearnerFrame

InitLearner == InitGraph

NextLearner ==
    \/ Tick
    \/ LearnerEnqueue
    \/ LearnerStep
    \/ LearnerSave
    \/ LearnerLoad

SpecLearner == InitLearner /\ [][NextLearner]_vars

\* enqueue and step on two threads, a statement at a time
RaceEnqueueCall ==
    /\ enqueueThread.pc = "idle"
    /\ learnerCall.n < MaxRaceCalls
    /\ \E task_id \in LearnerTasks, gradients \in GradientChoices, confidence \in Confidences :
          LET call == EnqueueCall(selfLearner, task_id, gradients, confidence, now)
          IN  /\ enqueueThread' = IF call.pc = "return" THEN [pc |-> "idle"] ELSE call
              /\ learnerCall' = [op |-> "enqueue", task_id |-> task_id, n |-> learnerCall.n + 1]
    /\ UNCHANGED <<selfLearner, learnerFile, stepThread>>
    /\ LearnerFrame

RaceEnqueueAdvance ==
    /\ enqueueThread.pc # "idle"
    /\ \E r \in {EnqueueAdvance(selfLearner, enqueueThread)} :
          /\ selfLearner' = r.learner
          /\ enqueueThread' = IF r.call.pc = "return" THEN [pc |-> "idle"] ELSE r.call
    /\ UNCHANGED <<learnerFile, learnerCall, stepThread>>
    /\ LearnerFrame

RaceStepCall ==
    /\ stepThread.pc = "idle"
    /\ learnerCall.n < MaxRaceCalls
    /\ stepThread' = StepCall(selfLearner)
    /\ learnerCall' = [op |-> "step", n |-> learnerCall.n + 1]
    /\ UNCHANGED <<selfLearner, learnerFile, enqueueThread>>
    /\ LearnerFrame

RaceStepAdvance ==
    /\ stepThread.pc # "idle"
    /\ \E r \in {StepAdvance(selfLearner, stepThread, now)} :
          /\ selfLearner' = r.learner
          /\ stepThread' = IF r.call.pc = "return" THEN [pc |-> "idle"] ELSE r.call
          /\ learnerCall' = IF r.call.pc = "return"
                            THEN [op |-> "step returned", updates |-> r.call.updates,
                                  raised |-> r.call.raised, n |-> learnerCall.n]
                            ELSE learnerCall
    /\ UNCHANGED <<learnerFile, enqueueThread>>
    /\ LearnerFrame

NextLearnerRace ==
    \/ RaceEnqueueCall
    \/ RaceEnqueueAdvance
    \/ RaceStepCall
    \/ RaceStepAdvance

SpecLearnerRace == InitLearner /\ [][NextLearnerRace]_vars

(***************************************************************************)
(* smart_client/backend/app/kprl.py: KPRLManager, and memory.py:           *)
(* ChatSession.  A block is kept as its place in the chain file and an     *)
(* event as its place among the published ones.  A queue is an             *)
(* asyncio.Queue: its maxsize and what it holds, oldest first.             *)
(***************************************************************************)
MaxBlocks == 3
MaxSubscribers == 2

\* ChatSession.backlog = deque(maxlen=200)
BacklogLimit == 200

\* asyncio.Queue(): maxsize is 0, which asyncio takes as no bound
NewQueue == [maxsize |-> 0, items |-> <<>>]

\* asyncio.Queue.full()
QueueFull(queue) == queue.maxsize > 0 /\ Len(queue.items) >= queue.maxsize

\* asyncio.Queue.put_nowait(item) on a queue that is not full
PutNowait(queue, item) == [queue EXCEPT !.items = Append(@, item)]

\* KPRLManager._broadcast(block) from queue i on: `await queue.put(block)`
\* returns at once unless the queue is full, where the task waits
RECURSIVE BroadcastFrom(_, _, _)
BroadcastFrom(queues, block, i) ==
    IF i > Len(queues) THEN [queues |-> queues, waiting |-> 0]
    ELSE IF QueueFull(queues[i]) THEN [queues |-> queues, waiting |-> i]
    ELSE BroadcastFrom([queues EXCEPT ![i] = PutNowait(@, block)], block, i + 1)

\* ChatSession.add_listener: a new queue, the backlog put into it
RECURSIVE Replay(_, _, _)
Replay(queue, events, i) ==
    IF i > Len(events) THEN queue
    ELSE Replay(PutNowait(queue, events[i]), events, i + 1)

\* list.remove(queue)
Without(queues, i) == [k \in 1..(Len(queues) - 1) |-> IF k < i THEN queues[k] ELSE queues[k + 1]]

StreamFrame ==
    UNCHANGED <<now, journalVars, sandboxVars, runtimeVars, sessionVars, kgVars, consentVars,
                storeVars, cacheVars, iotVars, workflowVars, learnerVars, plannerVars>>

\* KPRLManager.append_block: the line is written and a _broadcast task created
KprlAppendBlock ==
    /\ streamCall.n < MaxBlocks
    /\ chain' = Append(chain, Len(chain) + 1)
    /\ broadcasts' = Append(broadcasts, [block |-> Len(chain) + 1, next |-> 1])
    /\ streamCall' = [op |-> "append_block", n |-> streamCall.n + 1]
    /\ UNCHANGED <<subscribers, listeners, backlog>>
    /\ StreamFrame

\* the event loop runs the oldest _broadcast task
KprlBroadcast ==
    /\ broadcasts # <<>>
    /\ \E r \in {BroadcastFrom(subscribers, Head(broadcasts).block, Head(broadcasts).next)} :
          /\ subscribers' = r.queues
          /\ broadcasts' = IF r.waiting = 0 THEN Tail(broadcasts)
                           ELSE <<[Head(broadcasts) EXCEPT !.next = r.waiting]>>
                                \o Tail(broadcasts)
          /\ r.waiting = 0 \/ r.queues # subscribers
    /\ streamCall' = [op |-> "_broadcast", n |-> streamCall.n]
    /\ UNCHANGED <<chain, listeners, backlog>>
    /\ StreamFrame

KprlSubscribe ==
    /\ Len(subscribers) < MaxSubscribers
    /\ subscribers' = Append(subscribers, NewQueue)
    /\ streamCall' = [op |-> "subscribe", n |-> streamCall.n]
    /\ UNCHANGED <<broadcasts, chain, listeners, backlog>>
    /\ StreamFrame

KprlUnsubscribe ==
    /\ \E i \in 1..Len(subscribers) : subscribers' = Without(subscribers, i)
    /\ streamCall' = [op |-> "unsubscribe", n |-> streamCall.n]
    /\ UNCHANGED <<broadcasts, chain, listeners, backlog>>
    /\ StreamFrame

\* a subscriber takes the oldest block of its queue: queue.get()
KprlGet ==
    /\ \E i \in 1..Len(subscribers) :
          /\ subscribers[i].items # <<>>
          /\ subscribers' = [subscribers EXCEPT ![i].items = Tail(@)]
    /\ streamCall' = [op |-> "get", n |-> streamCall.n]
    /\ UNCHANGED <<broadcasts, chain, listeners, backlog>>
    /\ StreamFrame

\* ChatSession.publish(event_type, payload), awaited to its end
ChatPublish ==
    /\ streamCall.n < MaxBlocks
    /\ backlog' = KeepLast(Append(backlog, streamCall.n + 1), BacklogLimit)
    /\ \E r \in {BroadcastFrom(listeners, streamCall.n + 1, 1)} :
          /\ r.waiting = 0
          /\ listeners' = r.queues
    /\ streamCall' = [op |-> "publish", n |-> streamCall.n + 1]
    /\ UNCHANGED <<subscribers, broadcasts, chain>>
    /\ StreamFrame

ChatAddListener ==
    /\ Len(listeners) < MaxSubscribers
    /\ listeners' = Append(listeners, Replay(NewQueue, backlog, 1))
    /\ streamCall' = [op |-> "add_listener", n |-> streamCall.n]
    /\ UNCHANGED <<subscribers, broadcasts, chain, backlog>>
    /\ StreamFrame

ChatRemoveListener ==
    /\ \E i \in 1..Len(listeners) : listeners' = Without(listeners, i)
    /\ streamCall' = [op |-> "remove_listener", n |-> streamCall.n]
    /\ UNCHANGED <<subscribers, broadcasts, chain, backlog>>
    /\ StreamFrame

\* a listener takes the oldest event of its queue
ChatGet ==
    /\ \E i \in 1..Len(listeners) :
          /\ listeners[i].items # <<>>
          /\ listeners' = [listeners EXCEPT ![i].items = Tail(@)]
    /\ streamCall' = [op |-> "get", n |-> streamCall.n]
    /\ UNCHANGED <<subscribers, broadcasts, chain, backlog>>
    /\ StreamFrame

InitStream == InitGraph

NextStream ==
    \/ KprlAppendBlock
    \/ KprlBroadcast
    \/ KprlSubscribe
    \/ KprlUnsubscribe
    \/ KprlGet
    \/ ChatPublish
    \/ ChatAddListener
    \/ ChatRemoveListener
    \/ ChatGet

SpecStream == InitStream /\ [][NextStream]_vars

(***************************************************************************)
(* core/planner.py: NeuroSemanticPlanner.plan called directly.  A hint is  *)
(* a string, lower-cased as _match_skill does: a skill name, or a chain of *)
(* names joined by " -> ".                                                 *)
(***************************************************************************)
MaxPlanCalls == 2

ChainHints == {"analyst -> writer", "writer -> analyst", "analyst -> ghost -> writer"}

\* the skills a hint names, in its order
ChainOf(hint) ==
    IF hint = "analyst -> writer" THEN <<"analyst", "writer">>
    ELSE IF hint = "writer -> analyst" THEN <<"writer", "analyst">>
    ELSE IF hint = "analyst -> ghost -> writer" THEN <<"analyst", "ghost", "writer">>
    ELSE <<hint>>

\* hints=None, lists of names and lists holding one chain
HintChoices ==
    {{}, {"writer"}, {"analyst", "writer"}, {"analyst", "ghost", "writer"}}
    \cup {{hint} : hint \in ChainHints}

PlanGoals == {GoalDraft, GoalDeploy, GoalChain}

\* NeuroSemanticPlanner(catalogue).plan(goal, hints)
PlannerPlan ==
    /\ \E goal \in PlanGoals, hints \in HintChoices, names \in SUBSET {"analyst", "ghost", "writer"},
          call \in 1..MaxPlanCalls :
          planCall' = [op |-> "plan", goal |-> goal, hints |-> hints, catalogue |-> names,
                       plan |-> MakePlan(goal, hints, Catalogue(names), call)]
    /\ UNCHANGED <<now, journalVars, sandboxVars, runtimeVars, sessionVars, kgVars, consentVars,
                   storeVars, cacheVars, iotVars, workflowVars, learnerVars, streamVars>>

InitPlanner == InitGraph

NextPlanner == PlannerPlan

SpecPlanner == InitPlanner /\ [][NextPlanner]_vars

(***************************************************************************)
(* Claims about the action journal (checked under SpecJournal).            *)
(***************************************************************************)

\* C1: after any sequence of append calls the i-th entry (from 0) has index
\* i, the first prev_hash is 64 zeros, every later prev_hash is the hash of
\* the entry before it, every stored hash equals the recomputed hash, and
\* verify() returns true.
C1_ChainValid ==
    /\ \A i \in 1..Len(entries) :
          /\ entries[i].index = i - 1
          /\ entries[i].prev_hash = (IF i = 1 THEN ZeroHash ELSE entries[i - 1].hash)
          /\ entries[i].hash = ComputeHash(entries[i])
    /\ Verify(entries)

C1_Witness == Len(entries) >= 2

\* a line whose stored hash is present and differs from the hash recomputed
\* from its index, event, payload, timestamp and prev_hash
StoredHashDiffers(d) ==
    /\ IsIsoString(d.timestamp)
    /\ d.hash # NoneHash
    /\ d.hash # ComputeHash([index |-> d.index, event |-> d.event, payload |-> d.payload,
                             timestamp |-> Fromisoformat(d.timestamp),
                             prev_hash |-> d.prev_hash])

\* C2: load of a file in which some entry's stored hash differs from its
\* recomputed hash raises and yields no journal.
C2_TamperedHashRejected ==
    (/\ loaded.status # "none"
     /\ \E i \in 1..Len(loaded.from.lines) : StoredHashDiffers(loaded.from.lines[i]))
    => (loaded.status = "error" /\ restored = <<>>)

C2_Witness ==
    /\ loaded.status = "error"
    /\ \E i \in 1..Len(loaded.from.lines) : StoredHashDiffers(loaded.from.lines[i])

\* C3: for a journal built by appends, save then load yields a journal with
\* the same sequence of entry hashes whose verify() is true, and a further
\* append on the loaded journal keeps verify() true.
C3_RoundTrip ==
    (/\ loaded.status # "none"
     /\ loaded.from = SaveLines(loaded.origin))
    => /\ loaded.status = "ok"
       /\ loaded.count = Len(loaded.origin)
       /\ Len(restored) >= loaded.count
       /\ \A i \in 1..loaded.count : restored[i].hash = loaded.origin[i].hash
       /\ Verify(restored)

C3_Witness ==
    /\ loaded.status = "ok"
    /\ loaded.from = SaveLines(loaded.origin)
    /\ Len(loaded.origin) >= 2
    /\ Len(restored) > loaded.count
    /\ \E i \in 1..loaded.count : restored[i].payload # loaded.origin[i].payload


(***************************************************************************)
(* Claims about the skill sandbox (checked under SpecSandbox).             *)
(***************************************************************************)

\* C7: execute checks the usage counters against the quota before starting
\* a worker: when a counter has reached its limit the call raises
\* SkillQuotaExceeded naming that resource and the executor is not run; with
\* quota.invocations = N the executor runs at most N times.
C7_QuotaCheckedBeforeRun ==
    /\ (/\ lastExec.called
        /\ lastExec.name \in executors
        /\ EnforceQuota(lastExec.usageBefore, lastExec.quota) # "none")
       => /\ lastExec.raised = "SkillQuotaExceeded"
          /\ lastExec.resource = EnforceQuota(lastExec.usageBefore, lastExec.quota)
          /\ ~lastExec.started
    /\ \A name \in Skills :
          StoreQuota(name)["invocations"] # NoLimit
             => runs[name] <= StoreQuota(name)["invocations"]

\* C8: when the worker has not finished as time_limit elapses, the parent
\* terminates it, appends skill_timeout (skill name, time_limit) as the last
\* journal entry of the sandbox's journal and raises; the worker is not
\* alive when execute hands control back.
C8_TimeoutTerminates ==
    (lastExec.called /\ lastExec.timedOut)
    => /\ lastExec.terminated
       /\ ~lastExec.alive
       /\ lastExec.raised = "SkillExecutionError"
       /\ sbJournal =>
             /\ Len(entries) > 0
             /\ entries[Len(entries)].event = "skill_timeout"
             /\ entries[Len(entries)].payload.skill = lastExec.name
             /\ entries[Len(entries)].payload.time_limit = timeLimit

C8_Witness ==
    /\ lastExec.called
    /\ lastExec.timedOut
    /\ lastExec.behaviour = "hang"
    /\ sbJournal
    /\ Len(entries) >= 2

(***************************************************************************)
(* Claims about KolibriRuntime.process (checked under Spec).               *)
(***************************************************************************)

\* C4: with an offline cache configured, for two consecutive process calls
\* with identical request inputs inside the cache TTL, the second call
\* returns cached == true and its plan.as_dict(), executions and adjustments
\* are equal to those the first call returned.
C4_CachedResponseEqualsFirst ==
    (/\ cacheOn
     /\ prevResp.called
     /\ resp.called
     /\ resp.latest
     /\ resp.request = prevResp.request
     /\ resp.at - prevResp.entryAt <= CacheTtl)
    => /\ resp.cached
       /\ PlanAsDict(resp.plan) = PlanAsDict(prevResp.plan)
       /\ resp.executions = prevResp.executions
       /\ resp.adjustments = prevResp.adjustments

StepStatuses == {"ok", "policy_blocked", "quota_blocked", "missing", "skipped", "error"}

\* the journal events that record the outcome of a plan step
OutcomeEvents ==
    {"skill_executed", "skill_error", "skill_policy_blocked", "skill_quota_blocked",
     "skill_missing", "skill_skipped"}

\* the journal positions, among those the last call appended, of the outcome
\* entries of its i-th plan step
OutcomeAt(i) ==
    {k \in resp.first..resp.last :
        /\ entries[k].event \in OutcomeEvents
        /\ entries[k].payload.step_id = resp.plan.steps[i].id}

\* C5: process returns exactly one execution per plan step, in plan order,
\* each with a status in {ok, policy_blocked, quota_blocked, missing,
\* skipped, error}; a failure of one step never prevents the later steps
\* from being attempted (each has its outcome in the journal) nor the
\* response from being returned.
C5_OneExecutionPerStep ==
    resp.called =>
       /\ Len(resp.executions) = Len(resp.plan.steps)
       /\ \A i \in 1..Len(resp.plan.steps) :
             /\ resp.executions[i].step_id = resp.plan.steps[i].id
             /\ resp.executions[i].output.status \in StepStatuses
             /\ ~resp.cached => OutcomeAt(i) # {}

C5_Witness ==
    /\ resp.called
    /\ ~resp.cached
    /\ Len(resp.plan.steps) = 2
    /\ resp.executions[1].output.status \in {"error", "policy_blocked"}
    /\ resp.executions[2].output.status = "ok"

\* the positions of the policy items of a skill's manifest that a request's
\* data tags violate
BrokenPolicies(skill, tags) ==
    {k \in 1..Len(Manifest(skill).policy) :
        \/ Manifest(skill).policy[k][2] = "deny" /\ Manifest(skill).policy[k][1] \in tags
        \/ Manifest(skill).policy[k][2] = "require" /\ Manifest(skill).policy[k][1] \notin tags}

Made(made, what) == \E j \in 1..Len(made) : made[j] = what

\* C6: for a plan step whose skill is registered, the sandbox is called only
\* after authorize_execution and then enforce_policy have both succeeded for
\* that step; if either raises a policy violation the sandbox is not called,
\* the step's status is policy_blocked with the violated policy name, and a
\* skill_policy_blocked journal entry is appended.
C6_SandboxAfterStoreChecks ==
    (resp.called /\ ~resp.cached) =>
       \A i \in 1..Len(resp.plan.steps) :
          LET step == resp.plan.steps[i]
              made == resp.logs[i]
              out == resp.executions[i].output
              missing == Manifest(step.skill).permissions \ resp.request.skill_scopes
              broken == BrokenPolicies(step.skill, resp.request.data_tags)
              first == CHOOSE k \in broken : \A m \in broken : k <= m
              name == IF missing # {} THEN "permission" ELSE Manifest(step.skill).policy[first][1]
          IN  step.skill \in storeSkills =>
                 /\ Made(made, "execute") =>
                       /\ made = <<"authorize", "enforce", "execute">>
                       /\ missing = {}
                       /\ broken = {}
                 /\ (missing # {} \/ broken # {}) =>
                       /\ ~Made(made, "execute")
                       /\ out.status = "policy_blocked"
                       /\ out.policy = name
                       /\ \E k \in resp.first..resp.last :
                             /\ entries[k].event = "skill_policy_blocked"
                             /\ entries[k].payload.step_id = step.id
                             /\ entries[k].payload.policy = name

C6_Witness ==
    /\ resp.called
    /\ ~resp.cached
    /\ \E i \in 1..Len(resp.plan.steps) :
          /\ resp.logs[i] = <<"authorize", "enforce">>
          /\ resp.executions[i].output.status = "policy_blocked"
    /\ \E i \in 1..Len(resp.plan.steps) : Made(resp.logs[i], "execute")

\* the place of a journal event in the pipeline of process
Rank(event) ==
    CASE event = "privacy" -> 1
      [] event = "fusion" -> 2
      [] event = "plan" -> 3
      [] event \in {"rag_cache_hit", "rag_cache_store"} -> 4
      [] event = "rag_answer" -> 5
      [] event \in OutcomeEvents -> 6
      [] event \in {"skill_permissions", "skill_timeout", "skill_execution_error",
                    "skill_memory_limit_exceeded", "skill_process_terminated"} -> 6
      [] event = "empathy" -> 7
      [] event = "self_learning" -> 8
      [] event = "cache_store" -> 9
      [] event = "slo_snapshot" -> 10
      [] OTHER -> 0

Appended(event) == \E k \in resp.first..resp.last : entries[k].event = event

\* C9: on an offline-cache miss the journal entries one process call appends
\* are in pipeline order: privacy, fusion (when a modality was encoded),
\* plan, rag_cache_hit or rag_cache_store, rag_answer, the outcome entries
\* of the plan steps in plan order, empathy, self_learning (when the learner
\* had updates), cache_store (when a cache is configured), slo_snapshot last.
C9_MissJournalOrder ==
    (resp.called /\ ~resp.cached) =>
       /\ entries[resp.first].event = "privacy"
       /\ entries[resp.last].event = "slo_snapshot"
       /\ \A k \in resp.first..resp.last : Rank(entries[k].event) > 0
       /\ \A k \in resp.first..(resp.last - 1) :
             \/ Rank(entries[k].event) < Rank(entries[k + 1].event)
             \/ Rank(entries[k].event) = 6 /\ Rank(entries[k + 1].event) = 6
       /\ Appended("plan") /\ Appended("rag_answer") /\ Appended("empathy")
       /\ Appended("rag_cache_hit") \/ Appended("rag_cache_store")
       /\ Appended("fusion") <=> resp.encoded # {}
       /\ Appended("self_learning") <=> learnerOn
       /\ Appended("cache_store") <=> cacheOn
       /\ \A i \in 1..Len(resp.plan.steps) : Cardinality(OutcomeAt(i)) = 1
       /\ \A i, j \in 1..Len(resp.plan.steps) :
             i < j => \A a \in OutcomeAt(i), b \in OutcomeAt(j) : a < b

C9_Witness ==
    /\ resp.called
    /\ ~resp.cached
    /\ Len(resp.plan.steps) = 2
    /\ Appended("fusion")
    /\ Appended("self_learning")
    /\ Appended("cache_store")
    /\ Appended("skill_timeout")
    /\ resp.first > 1

(***************************************************************************)
(* Claims about the session lifecycle (checked under SpecSession).         *)
(***************************************************************************)

\* the session the journal shows as active after its first n entries, or
\* "two" once a session_started is found while another session is active
RECURSIVE JournalActive(_, _)
JournalActive(es, n) ==
    IF n = 0 THEN None
    ELSE LET before == JournalActive(es, n - 1)
             e == es[n]
         IN  IF before = "two" THEN "two"
             ELSE IF e.event = "session_finished"
             THEN IF before = e.payload.session_id THEN None ELSE "two"
             ELSE IF e.event = "session_started"
             THEN IF before \in {None, e.payload.session_id} THEN e.payload.session_id
                  ELSE "two"
             ELSE before

\* C10: at most one session is active at a time: end_session with an active
\* session s saves the graph, resets the IoT bridge state of s, appends
\* session_finished for s and leaves no session active; end_session with no
\* active session appends nothing; start_session(t) while a session s
\* different from t is active first ends s, so session_finished(s) precedes
\* session_started(t) in the journal.
C10_SessionLifecycle ==
    /\ JournalActive(entries, Len(entries)) = activeSession
    /\ (lastCall.op = "end_session" /\ lastCall.before # None) =>
          /\ activeSession = None
          /\ Len(entries) = lastCall.len + 1
          /\ entries[Len(entries)].event = "session_finished"
          /\ entries[Len(entries)].payload.session_id = lastCall.before
          /\ graphFiles[graphStorePath] = [exists |-> TRUE, nodes |-> graph]
          /\ iotOn => /\ iotCounts[lastCall.before] = 0
                      /\ \A k \in 1..Len(iotDeferred) : iotDeferred[k] # lastCall.before
    /\ (lastCall.op = "end_session" /\ lastCall.before = None) =>
          /\ activeSession = None
          /\ Len(entries) = lastCall.len
    /\ (lastCall.op = "start_session" /\ lastCall.before \notin {None, lastCall.arg}) =>
          /\ activeSession = lastCall.arg
          /\ Len(entries) = lastCall.len + 2
          /\ entries[lastCall.len + 1].event = "session_finished"
          /\ entries[lastCall.len + 1].payload.session_id = lastCall.before
          /\ entries[lastCall.len + 2].event = "session_started"
          /\ entries[lastCall.len + 2].payload.session_id = lastCall.arg
          /\ iotOn => /\ iotCounts[lastCall.before] = 0
                      /\ \A k \in 1..Len(iotDeferred) : iotDeferred[k] # lastCall.before

C10_Witness ==
    /\ lastCall.op = "start_session"
    /\ lastCall.before \notin {None, lastCall.arg}
    /\ lastCall.held > 0
    /\ graph # {}

\* C11: start_session(id) called without graph_path loads the graph from,
\* and end_session later saves it to, the file {id}.kg.jsonl (the path the
\* runtime holds for the session); this holds for every session started on
\* a runtime, including one started after an earlier session with a
\* different id has ended.
C11_DefaultGraphPath ==
    (lastCall.op = "start_session" /\ lastCall.graph_path = None) =>
       /\ graphStorePath = DefaultGraphPath(lastCall.arg)
       /\ entries[Len(entries)].payload.graph_path = DefaultGraphPath(lastCall.arg)

(***************************************************************************)
(* Claims about the knowledge graph (checked under SpecGraph).             *)
(***************************************************************************)

\* C12: after deduplicate_embeddings, for every returned pair (canonical,
\* duplicate): get_node(duplicate) is None, no edge has the duplicate as
\* source or target, and every edge that referenced the duplicate now
\* references the canonical and carries {from: duplicate, to: canonical} in
\* its metadata redirects.
Carries(edge, from, to) ==
    \E k \in 1..Len(edge.metadata.redirects) :
        edge.metadata.redirects[k] = [from |-> from, to |-> to]

C12_DuplicatesRedirected ==
    kgCall.op = "deduplicate_embeddings" =>
       \A p \in 1..Len(kgCall.result) :
          LET canonical == kgCall.result[p][1]
              duplicate == kgCall.result[p][2]
              was == Edges(kgCall.before)
              is == Edges(GraphValue)
          IN  /\ ~HasNode(GraphValue, duplicate)
              /\ \A i \in 1..Len(is) : ~References(is[i], duplicate)
              /\ \A i \in 1..Len(was) :
                    References(was[i], duplicate) =>
                       /\ References(is[i], canonical)
                       /\ Carries(is[i], duplicate, canonical)

\* C13: when deduplicate_embeddings merges two nodes, the one it keeps is
\* the one with the larger (memory == long_term, confidence) pair, and on a
\* tie the one that comes first in nodes() order.
PositionIn(snapshot, node) == CHOOSE i \in 1..Len(snapshot) : snapshot[i] = node

C13_CanonicalIsMaximal ==
    kgCall.op = "deduplicate_embeddings" =>
       \A k \in 1..Len(kgCall.merges) :
          LET kept == kgCall.merges[k].canonical
              lost == kgCall.merges[k].duplicate
              snapshot == Nodes(kgCall.before)
          IN  /\ kgCall.result[k] = <<kept.id, lost.id>>
              /\ ~TupleGreater(Priority(lost), Priority(kept))
              /\ Priority(lost) = Priority(kept) =>
                    PositionIn(snapshot, kept) < PositionIn(snapshot, lost)
              /\ \E i \in 1..Len(snapshot) : snapshot[i] = kept
              /\ \E i \in 1..Len(snapshot) : snapshot[i] = lost

C13_Witness ==
    /\ kgCall.op = "deduplicate_embeddings"
    /\ \E k \in 1..Len(kgCall.merges) :
          Priority(kgCall.merges[k].canonical) = Priority(kgCall.merges[k].duplicate)
    /\ \E k \in 1..Len(kgCall.merges) :
          /\ kgCall.merges[k].canonical.memory = "long_term"
          /\ kgCall.merges[k].duplicate.memory = "operational"
          /\ kgCall.merges[k].duplicate.confidence > kgCall.merges[k].canonical.confidence

\* C17: after add_node (with any memory argument), promote_node and
\* deduplicate_embeddings no node id is present in both the operational and
\* the long_term store, and a node that has reached long_term is not found
\* in operational afterwards.
C17_TiersExclusive ==
    [][/\ \A id \in NodeIds :
            ~(DictHas(operational_nodes', id) /\ DictHas(long_term_nodes', id))
       /\ \A id \in NodeIds :
            DictHas(long_term_nodes, id) => ~DictHas(operational_nodes', id)]_vars

\* C18: after add_node, add_edge, promote_node and deduplicate_embeddings,
\* the source and the target of every stored edge are ids of nodes present
\* in the graph.
C18_EdgeEndpointsExist ==
    \A i \in 1..Len(Edges(GraphValue)) :
        /\ HasNode(GraphValue, Edges(GraphValue)[i].source)
        /\ HasNode(GraphValue, Edges(GraphValue)[i].target)

(***************************************************************************)
(* Claims about conflict detection (checked under SpecConflicts).          *)
(***************************************************************************)
\* the sequences that hold the elements of seq in another order
Reordered(seq) ==
    {[i \in 1..Len(seq) |-> seq[f[i]]] : f \in Permutations(1..Len(seq))}

\* the graphs that hold the nodes and edges of g in another insertion order
Reorderings(g) ==
    {[g EXCEPT !.op = o, !.lt = l, !.oe = e, !.le = f] :
        o \in Reordered(g.op), l \in Reordered(g.lt),
        e \in Reordered(g.oe), f \in Reordered(g.le)}

\* C14: detect_conflicts returns the same list of unordered pairs (each
\* pair sorted, the list sorted, no pair twice) for any two graphs holding
\* the same nodes and edges inserted in different orders, does not change
\* the graph, and returns the same result when called twice in a row.
C14_ConflictsOrderFree ==
    kgCall.op = "detect_conflicts" =>
       /\ \A i \in 1..Len(kgCall.result) :
             ~(IdIndex(kgCall.result[i][2]) < IdIndex(kgCall.result[i][1]))
       /\ \A i \in 1..Len(kgCall.result) : \A j \in 1..Len(kgCall.result) :
             i < j => PairLess(kgCall.result[i], kgCall.result[j])
       /\ \A h \in Reorderings(kgCall.before) : DetectConflicts(h) = kgCall.result
       /\ GraphValue = kgCall.before
       /\ kgCall.again => kgCall.result = kgCall.previous

C14_Witness ==
    /\ kgCall.op = "detect_conflicts"
    /\ kgCall.again
    /\ Len(kgCall.result) >= 2
    /\ Cardinality(Reorderings(kgCall.before)) >= 2
    /\ \E i \in 1..Len(operational_edges) :
          /\ operational_edges[i].relation = "contradicts"
          /\ IdIndex(operational_edges[i].target) < IdIndex(operational_edges[i].source)

\* C15: detect_conflicts reports every pair of nodes whose texts, after
\* dropping the tokens not/never/no and sorting the lower-cased word tokens,
\* are equal and of which exactly one contains a negation token; word order
\* in the text does not matter.
Vocabulary == {"sky", "blue", "not", "never", "no"}
\* the sorted tokens of a text, as the number of times each word occurs
SortedTokens(tokens) ==
    [word \in Vocabulary |-> Cardinality({i \in 1..Len(tokens) : tokens[i] = word})]

C15_NegatedPairsReported ==
    kgCall.op = "detect_conflicts" =>
       \A i \in 1..Len(Nodes(GraphValue)) : \A j \in 1..Len(Nodes(GraphValue)) :
          LET left == Nodes(GraphValue)[i]
              right == Nodes(GraphValue)[j]
          IN  (/\ SortedTokens(NormaliseText(left.text, TRUE))
                    = SortedTokens(NormaliseText(right.text, TRUE))
               /\ Polarity(left.text) # Polarity(right.text))
              => \E k \in 1..Len(kgCall.result) :
                    kgCall.result[k] = SortedPair(<<left.id, right.id>>)

(***************************************************************************)
(* Claims about graph snapshots (checked under SpecPersist).               *)
(***************************************************************************)
Occurrences(seq, x) == Cardinality({i \in 1..Len(seq) : seq[i] = x})
SameBag(left, right) ==
    /\ Len(left) = Len(right)
    /\ \A x \in SeqRange(left) : Occurrences(left, x) = Occurrences(right, x)

\* the same nodes per tier, the same edges per tier, the same pending updates
SameContent(g, h) ==
    /\ SameBag(g.op, h.op)
    /\ SameBag(g.lt, h.lt)
    /\ SameBag(g.oe, h.oe)
    /\ SameBag(g.le, h.le)
    /\ SameBag(g.pending, h.pending)

\* the node the change was staged for carries it
Applied(g, item) ==
    HasNode(g, item.id) =>
       /\ item.change.confidence # <<>> =>
             GetNode(g, item.id).confidence = item.change.confidence[1]
       /\ item.change.metadata # <<>> =>
             GetNode(g, item.id).metadata.note = <<item.change.metadata[1].note>>
       /\ item.change.owner # <<>> =>
             GetNode(g, item.id).metadata.ignored_updates = <<"owner">>

\* C16: save followed by load yields the same nodes in the same memory
\* tier, the same multiset of edges in the same tier and the same pending
\* updates as the graph that was saved, so that propagate_pending on the
\* loaded graph applies the changes staged before the save.
C16_SnapshotRoundTrip ==
    (kgCall.op = "load" /\ kgCall.result = TRUE) =>
       /\ SameContent(GraphValue, kgFile.origin)
       /\ SameContent(PropagatePending(GraphValue).g, PropagatePending(kgFile.origin).g)
       /\ \A k \in 1..Len(kgFile.origin.pending) :
             Applied(PropagatePending(GraphValue).g, kgFile.origin.pending[k])

C16_Witness ==
    /\ kgCall.op = "load"
    /\ kgCall.result = TRUE
    /\ kgCall.replaced
    /\ operational_nodes # <<>>
    /\ long_term_nodes # <<>>
    /\ long_term_edges # <<>>
    /\ Len(pending_updates) = 2
    /\ pending_updates # kgFile.origin.pending
    /\ PropagatePending(GraphValue).processed # <<>>

(***************************************************************************)
(* Claims about verification (checked under SpecVerify).                   *)
(***************************************************************************)

\* C19: verify_with_critics() without extra critics or authorities returns
\* exactly one result per (registered critic or authority, node currently
\* in the graph), computed from that node: after add_node, promote_node,
\* deduplicate_embeddings, register_critic, register_authority and load it
\* never returns results that were computed for an earlier graph state.
C19_VerificationCurrent ==
    kgCall.op = "verify_with_critics" =>
       /\ Len(kgCall.result)
             = (Len(critics.critics) + Len(critics.authorities)) * Len(Nodes(GraphValue))
       /\ \A name \in SeqRange(critics.critics) \cup SeqRange(critics.authorities) :
             \A i \in 1..Len(Nodes(GraphValue)) :
                \E k \in 1..Len(kgCall.result) :
                   /\ kgCall.result[k].critic = name
                   /\ kgCall.result[k].node_id = Nodes(GraphValue)[i].id
                   /\ kgCall.result[k].score =
                         IF kgCall.result[k].provenance = "critic"
                         THEN CriticScore(name, Nodes(GraphValue)[i])
                         ELSE AuthorityPayload(name, Nodes(GraphValue)[i]).score

(***************************************************************************)
(* Claims about consent (checked under SpecConsent).                       *)
(***************************************************************************)

\* C20: after any sequence of grant and deny calls for a user, every tag is
\* in at most one of the user's allowed and denied sets, and is_allowed(user,
\* tag) for a tag named in at least one call is true exactly when the most
\* recent call naming that tag was grant.
C20_LaterCallWins ==
    \A user_id \in ConsentUsers : \A data_type \in DataTypes :
       /\ ~(data_type \in records[user_id].allowed /\ data_type \in records[user_id].denied)
       /\ lastNamed[user_id][data_type].call # "none" =>
             (IsAllowed(records, layers, user_id, data_type)
                <=> lastNamed[user_id][data_type].call = "grant")
       /\ lastNamed[user_id][data_type].call # "none" =>
             (Enforce(records, layers, user_id, <<data_type>>) = <<data_type>>
                <=> lastNamed[user_id][data_type].call = "grant")

C20_Witness ==
    /\ lastNamed["u1"]["audio"] = [call |-> "deny", reversed |-> TRUE]
    /\ lastNamed["u1"]["text"] = [call |-> "grant", reversed |-> TRUE]
    /\ lastNamed["u2"]["audio"].call = "grant"
    /\ records["u1"].denied = {"audio"}
    /\ records["u1"].allowed = {"text"}
    /\ layers = <<"baseline">>

\* C21: for every user, with or without a consent record, and every tag the
\* user has neither granted nor denied, is_allowed is true exactly when the
\* first registered policy layer whose scope contains the tag has
\* default_action allow, and false when no layer matches.
C21_LayerDecidesUnnamedTags ==
    \A user_id \in ConsentUsers : \A data_type \in DataTypes :
       (data_type \notin records[user_id].allowed \cup records[user_id].denied) =>
          (IsAllowed(records, layers, user_id, data_type)
             <=> \E i \in 1..Len(layers) :
                    /\ data_type \in Layers[layers[i]].scope
                    /\ Layers[layers[i]].default_action = "allow"
                    /\ \A j \in 1..(i - 1) : data_type \notin Layers[layers[j]].scope)

(***************************************************************************)
(* Claims about the skill store (checked under SpecStore).                 *)
(***************************************************************************)

\* C22: authorize_execution(skill, granted) on a registered skill appends
\* exactly one audit record: when some manifest permission is not in granted
\* it appends a deny record listing the missing permissions and raises;
\* otherwise it appends an allow record and returns the manifest permissions
\* sorted.
C22_AuthorizeAuditsOnce ==
    (storeCall.op = "authorize" /\ storeCall.name \in storeSkills) =>
       LET permissions == Manifest(storeCall.name).permissions
           missing == permissions \ storeCall.arg
           record == auditLog[Len(auditLog)]
       IN  /\ Len(auditLog) = Len(storeCall.before) + 1
           /\ SubSeq(auditLog, 1, Len(storeCall.before)) = storeCall.before
           /\ record.skill = storeCall.name
           /\ IF missing # {}
              THEN /\ storeCall.raised = "SkillPolicyViolation"
                   /\ record.decision = "deny"
                   /\ SeqRange(record.detail.missing_permissions) = missing
              ELSE /\ storeCall.raised = "none"
                   /\ record.decision = "allow"
                   /\ SeqRange(storeCall.result) = permissions
                   /\ Len(storeCall.result) = Cardinality(permissions)
                   /\ \A i, j \in 1..Len(storeCall.result) :
                         i < j => \E a, b \in 1..Len(ScopeOrder) :
                                     /\ a < b
                                     /\ ScopeOrder[a] = storeCall.result[i]
                                     /\ ScopeOrder[b] = storeCall.result[j]

C22_Witness ==
    /\ storeCall.op = "authorize"
    /\ storeCall.name = "deployer"
    /\ storeCall.raised = "none"
    /\ Len(storeCall.result) = 2
    /\ Len(auditLog) = 2
    /\ auditLog[1].decision = "deny"
    /\ Len(auditLog[1].detail.missing_permissions) = 2

\* C23: enforce_policy(skill, tags) raises a policy violation exactly when
\* the manifest has a policy entry (p, rule) with lower-cased rule in {deny,
\* blocked, forbid} and p in tags, or with rule in {require, required} and p
\* not in tags; otherwise it returns normally; rules outside these five
\* values never block.
C23_PolicyBlocksExactly ==
    (storeCall.op = "enforce" /\ storeCall.name \in storeSkills) =>
       LET policy == Manifest(storeCall.name).policy
           Blocks(i) ==
              \/ /\ Lower(policy[i][2]) \in {"deny", "blocked", "forbid"}
                 /\ policy[i][1] \in storeCall.arg
              \/ /\ Lower(policy[i][2]) \in {"require", "required"}
                 /\ policy[i][1] \notin storeCall.arg
       IN  /\ storeCall.raised = "SkillPolicyViolation" <=> \E i \in 1..Len(policy) : Blocks(i)
           /\ storeCall.raised \in {"SkillPolicyViolation", "none"}
           /\ storeCall.raised = "SkillPolicyViolation" =>
                 \E i \in 1..Len(policy) : Blocks(i) /\ storeCall.result[1] = policy[i][1]

C23_Witness ==
    /\ storeCall.op = "enforce"
    /\ storeCall.name = "deployer"
    /\ storeCall.arg = {"trace", "audit"}
    /\ storeCall.raised = "none"
    /\ Len(auditLog) = 2
    /\ auditLog[1].skill = "deployer"
    /\ auditLog[1].decision = "deny"
    /\ auditLog[1].detail = [policy |-> "pii", rule |-> "forbid"]

(***************************************************************************)
(* Claims about the offline cache (checked under SpecCache).               *)
(***************************************************************************)

\* C24: an OfflineCache entry put at time t is returned by get at every
\* later time t2 with t2 - t <= ttl; at every time t2 with t2 - t > ttl get
\* returns None and size() does not count it; a later put on the same key
\* restarts the TTL from that put.
C24_EntriesLiveForTtl ==
    /\ cacheCall.op = "get" =>
          LET put == cachePuts[cacheCall.key]
          IN  /\ (put.present /\ cacheCall.at - put.at <= CacheTtl) =>
                    cacheCall.result = <<put.value>>
              /\ (put.present /\ cacheCall.at - put.at > CacheTtl) =>
                    cacheCall.result = <<>>
    /\ cacheCall.op = "size" =>
          cacheCall.result =
             Cardinality({key \in CacheKeys :
                            /\ cachePuts[key].present
                            /\ cacheCall.at - cachePuts[key].at <= CacheTtl})

C24_Witness ==
    /\ cacheCall.op = "get"
    /\ cacheCall.key = "k1"
    /\ cacheCall.at = 2
    /\ cachePuts["k1"] = [present |-> TRUE, value |-> "v2", at |-> 1]
    /\ cacheCall.result = <<"v2">>
    /\ cachePuts["k2"] = [present |-> TRUE, value |-> "v1", at |-> 0]
    /\ \A e \in offlineCache : e.key # "k2"

(***************************************************************************)
(* Claims about the alerts of process (checked under Spec).                *)
(***************************************************************************)

\* the alert thresholds of the specification's alerting rule: its defaults,
\* with min_observations lowered to one request
AlertThresholds ==
    [min_hit_rate |-> <<1, 5>>, max_miss_rate |-> <<19, 20>>, max_size |-> 1024,
     min_observations |-> 1]

FractionLess(a, b) == a[1] * b[2] < b[1] * a[2]

Breached(stats) ==
    /\ stats.requests >= AlertThresholds.min_observations
    /\ \/ FractionLess(stats.hit_rate, AlertThresholds.min_hit_rate)
       \/ FractionLess(AlertThresholds.max_miss_rate, stats.miss_rate)
       \/ stats.size > AlertThresholds.max_size

\* C25: after each retrieval step of process, when the RAG cache has served
\* at least min_observations requests and hit_rate is below min_hit_rate,
\* miss_rate is above max_miss_rate or size is above max_size, a
\* runtime_alert journal entry is appended; no runtime_alert is appended
\* while requests < min_observations.
C25_AlertOnBreach ==
    (resp.called /\ ~resp.cached) =>
       LET stats == RagStats(ragCache, ragCounts, resp.at)
           alerted == \E k \in resp.first..resp.last : entries[k].event = "runtime_alert"
       IN  /\ Breached(stats) => alerted
           /\ stats.requests < AlertThresholds.min_observations => ~alerted

(***************************************************************************)
(* Claims about the IoT bridge (checked under SpecIot and SpecRelease).    *)
(***************************************************************************)

\* C26: after any sequence of dispatch, dispatch_batch, release_delayed and
\* merge_after_offline calls, the number of commands executed for a session
\* since its last reset_session never exceeds max_actions_per_session, and
\* every executed command was on the allowlist for its device and, when the
\* command or the policy required confirmation, the confirmation callback
\* returned true for it.
C26_ExecutedWithinPolicy ==
    /\ \A s \in SessionIds : iotExecuted[s] <= IotPolicy.max_actions_per_session
    /\ iotCall.op \in {"dispatch", "dispatch_batch", "release_delayed",
                       "merge_after_offline"} =>
          /\ Len(iotCall.acks) = Len(iotCall.executed)
          /\ \A k \in 1..Len(iotCall.executed) :
                LET command == iotCall.executed[k].command
                IN  /\ command.device_id \in DOMAIN IotPolicy.allowlist
                    /\ command.action \in IotPolicy.allowlist[command.device_id]
                    /\ (\/ command.requires_confirmation
                        \/ <<command.device_id, command.action>>
                              \in IotPolicy.confirmation_required)
                          => iotCall.args.confirmer = "yes"

C26_Witness ==
    /\ iotCall.op = "merge_after_offline"
    /\ iotCall.raised = "RuntimeError"
    /\ Len(iotCall.executed) = 1
    /\ iotCall.executed[1].command = IotCommand("lamp", "on", FALSE)
    /\ iotExecuted[iotCall.args.session_id] = IotPolicy.max_actions_per_session
    /\ session_counts[iotCall.args.session_id] = IotPolicy.max_actions_per_session
    /\ Len(iotCall.before) = 1

\* C27: release_delayed(upto) executes exactly the queued commands whose
\* availability time is <= upto, in non-decreasing availability-time order
\* (queue order among equal times), and leaves every other queued command in
\* the deferred queue in its original relative order.
C27_ReleaseExecutesReady ==
    iotCall.op = "release_delayed" =>
       LET deadline == IF iotCall.args.upto = <<>> THEN iotCall.at ELSE iotCall.args.upto[1]
           Ready(k) == iotCall.before[k].timestamp <= deadline
           positions == {k \in 1..Len(iotCall.before) : Ready(k)}
       IN  /\ deferred = SelectSeq(iotCall.before, LAMBDA record : record.timestamp > deadline)
           /\ Len(iotCall.executed) = Cardinality(positions)
           /\ \E order \in [1..Cardinality(positions) -> positions] :
                 /\ \A i, j \in 1..Cardinality(positions) : i # j => order[i] # order[j]
                 /\ \A i \in 1..Cardinality(positions) :
                       /\ iotCall.executed[i].command = iotCall.before[order[i]].command
                       /\ iotCall.executed[i].session_id = iotCall.before[order[i]].session_id
                 /\ \A i, j \in 1..Cardinality(positions) :
                       i < j =>
                          \/ iotCall.before[order[i]].timestamp
                                < iotCall.before[order[j]].timestamp
                          \/ /\ iotCall.before[order[i]].timestamp
                                   = iotCall.before[order[j]].timestamp
                             /\ order[i] < order[j]

(***************************************************************************)
(* Claims about the workflow manager (checked under SpecWorkflow).         *)
(***************************************************************************)

\* C28: emit_reminders(at) returns one event for every (workflow with a
\* deadline, reminder rule) pair with deadline - offset <= at and no other
\* event, each with scheduled_for = deadline - offset, sorted by
\* (scheduled_for, workflow_id); workflows without a deadline produce no
\* event.
C28_RemindersDue ==
    wfCall.op = "emit_reminders" =>
       LET at == IF wfCall.timestamp = <<>> THEN wfCall.at ELSE wfCall.timestamp[1]
           events == wfCall.events
           due == {pair \in (1..Len(workflows)) \X (1..2) :
                     /\ workflows[pair[1]].deadline # <<>>
                     /\ pair[2] <= Len(workflows[pair[1]].reminders)
                     /\ workflows[pair[1]].deadline[1]
                           - workflows[pair[1]].reminders[pair[2]].offset <= at}
           EventOf(pair) ==
              [workflow_id |-> workflows[pair[1]].id,
               message |-> workflows[pair[1]].reminders[pair[2]].message,
               scheduled_for |-> workflows[pair[1]].deadline[1]
                                   - workflows[pair[1]].reminders[pair[2]].offset]
       IN  /\ Len(events) = Cardinality(due)
           /\ \A pair \in due :
                 Cardinality({k \in 1..Len(events) : events[k] = EventOf(pair)})
                   = Cardinality({other \in due : EventOf(other) = EventOf(pair)})
           /\ \A k \in 1..Len(events) :
                 workflows[events[k].workflow_id].deadline # <<>>
           /\ \A i, j \in 1..Len(events) :
                 i < j =>
                    \/ events[i].scheduled_for < events[j].scheduled_for
                    \/ /\ events[i].scheduled_for = events[j].scheduled_for
                       /\ events[i].workflow_id <= events[j].workflow_id

C28_Witness ==
    /\ wfCall.op = "emit_reminders"
    /\ wfCall.timestamp = <<1>>
    /\ Len(workflows) = 2
    /\ workflows[1].deadline = <<2>>
    /\ Len(workflows[1].reminders) = 2
    /\ workflows[2].deadline = <<1>>
    /\ Len(wfCall.events) = 3
    /\ wfCall.events[1].workflow_id = 1
    /\ wfCall.events[2].workflow_id = 2
    /\ wfCall.events[1].scheduled_for = 0

(***************************************************************************)
(* Claims about the background self-learner.                               *)
(***************************************************************************)

\* C29: for any learner state reached by enqueue and step calls, trained
\* weights included, save followed by load into a fresh learner completes
\* and restores status().pending, the learner's weights and the history up
\* to history_size.
C29_SaveLoadRestores ==
    (learnerCall.op = "load" /\ learnerCall.found) =>
       /\ learnerCall.raised = "none"
       /\ StatusPending(learnerCall.loaded) = StatusPending(learnerCall.origin)
       /\ learnerCall.loaded.weights = learnerCall.origin.weights
       /\ learnerCall.loaded.history
            = KeepLast(learnerCall.origin.history, learnerCall.origin.history_size)

\* C30: with enqueue and step running concurrently, whenever neither call is
\* in progress a task's pending count is 0 only if its aggregator holds no
\* un-aggregated update.
C30_NoUpdateLeftBehind ==
    (enqueueThread.pc = "idle" /\ stepThread.pc = "idle") =>
       \A i \in 1..Len(selfLearner.aggregators) :
          GetOr(selfLearner.pending_counts, selfLearner.aggregators[i].task_id, 0) = 0
             => DOMAIN selfLearner.aggregators[i].sums = {}

(***************************************************************************)
(* Claims about the streaming fan-out.                                     *)
(***************************************************************************)

\* C31: every subscriber queue is bounded and holds at most its limit of
\* messages, the most recent ones in append order (the oldest is dropped
\* when a message arrives at a full queue).
C31_QueuesBounded ==
    \A queues \in {subscribers, listeners} :
       \A i \in 1..Len(queues) :
          /\ queues[i].maxsize > 0
          /\ Len(queues[i].items) <= queues[i].maxsize
          /\ \A j, k \in 1..Len(queues[i].items) :
                j < k => queues[i].items[j] < queues[i].items[k]

(***************************************************************************)
(* Claims about the planner.                                               *)
(***************************************************************************)

\* step `later` of the plan depends, directly or through other steps, on
\* step `earlier`
RECURSIVE DependsOn(_, _, _)
DependsOn(steps, later, earlier) ==
    \E d \in 1..Len(steps[later].dependencies) :
       \E k \in 1..(later - 1) :
          /\ steps[k].id = steps[later].dependencies[d]
          /\ (k = earlier \/ DependsOn(steps, k, earlier))

\* C32: in a plan made with a hint that is a chain of registered skills (and
\* with a sentence for each of them) every skill of the chain has a step,
\* and each step of a skill depends on the steps of the skill before it in
\* the chain.
C32_ChainOrdersSteps ==
    planCall.op = "plan" =>
       \A hint \in planCall.hints \cap ChainHints :
          LET skills == ChainOf(hint)
              steps == planCall.plan.steps
          IN  (/\ \A i \in 1..Len(skills) : skills[i] \in planCall.catalogue
               /\ Len(steps) >= Len(skills)) =>
                 \A i \in 1..(Len(skills) - 1) :
                    /\ \E a \in 1..Len(steps) : steps[a].skill = skills[i]
                    /\ \E b \in 1..Len(steps) : steps[b].skill = skills[i + 1]
                    /\ \A a, b \in 1..Len(steps) :
                          (steps[a].skill = skills[i] /\ steps[b].skill = skills[i + 1])
                             => DependsOn(steps, b, a)

(***************************************************************************)
(* Claims about the cached path of process (checked under Spec).           *)
(***************************************************************************)

\* C33: a process call served from the offline cache leaves the RAG cache
\* and its counters, the skill store's audit log, the sandbox and the
\* profiler as they were, and appends to the journal only privacy, fusion
\* (when a modality was encoded), cache_hit and slo_snapshot, in that order.
C33_CachedCallTouchesNothing ==
    [][(calls' = calls + 1 /\ resp'.cached) =>
          /\ ragCache' = ragCache
          /\ ragCounts' = ragCounts
          /\ auditLog' = auditLog
          /\ runs' = runs
          /\ usage' = usage
          /\ lastExec' = lastExec
          /\ profileCount' = profileCount
          /\ SubSeq(entries', 1, Len(entries)) = entries
          /\ [i \in 1..(Len(entries') - Len(entries)) |-> entries'[Len(entries) + i].event]
               = <<"privacy">>
                 \o (IF resp'.encoded # {} THEN <<"fusion">> ELSE <<>>)
                 \o <<"cache_hit", "slo_snapshot">>]_vars

C33_Witness ==
    /\ resp.called /\ resp.cached /\ resp.latest
    /\ resp.encoded # {}
    /\ resp.last = Len(entries)
    /\ resp.last - resp.first = 3
    /\ entries[resp.last - 1].event = "cache_hit"
    /\ Len(resp.executions) > 0

(***************************************************************************)
(* Claims about the sandbox's usage counters (checked under SpecSandbox).  *)
(***************************************************************************)

\* C34: usage_snapshot(name).invocations is the number of execute calls for
\* the skill that ran the executor.
C34_UsageCountsRuns ==
    \A name \in Skills : usage[name]["invocations"] = runs[name]


\* the graph after the step
GraphValueNext ==
    [op |-> operational_nodes', lt |-> long_term_nodes', oe |-> operational_edges',
     le |-> long_term_edges', pending |-> pending_updates', rev |-> revision',
     cache |-> verification_cache']

RECURSIVE DegradedTimes(_, _)
DegradedTimes(weight, k) == IF k = 0 THEN weight ELSE DegradedTimes(Degraded(weight), k - 1)

\* the ids with a pending update whose node exists, in the order they were staged
PendingPresent ==
    LET present == SelectSeq(pending_updates, LAMBDA item : HasNode(GraphValue, item.id))
    IN  [i \in 1..Len(present) |-> present[i].id]

\* what propagate_pending makes of one edge store
EdgesPropagated(before, after) ==
    /\ Len(after) = Len(before)
    /\ \A i \in 1..Len(before) :
          LET k == Cardinality({id \in SeqRange(PendingPresent) : References(before[i], id)})
          IN  /\ after[i].weight = DegradedTimes(before[i].weight, k)
              /\ after[i].metadata.pending_review
                    = (k > 0 \/ before[i].metadata.pending_review)
              /\ after[i].source = before[i].source
              /\ after[i].target = before[i].target

\* C35: lazy_update changes no node and no edge; propagate_pending empties the
\* pending set, returns the ids of the pending nodes that exist, multiplies the
\* weight of every edge incident to such a node by 0.95 once for that node and
\* marks it pending_review, and leaves the node's id in pending_backprop of
\* every neighbour that exists, each pending_backprop sorted without duplicates.
C35_LazyThenPropagate ==
    [][/\ kgCall'.op = "lazy_update"
          => UNCHANGED <<operational_nodes, long_term_nodes, operational_edges,
                         long_term_edges>>
       /\ kgCall'.op = "propagate_pending"
          => /\ pending_updates' = <<>>
             /\ kgCall'.result = PendingPresent
             /\ EdgesPropagated(operational_edges, operational_edges')
             /\ EdgesPropagated(long_term_edges, long_term_edges')
             /\ \A id \in SeqRange(PendingPresent) :
                   \A edge \in SeqRange(Edges(GraphValue)) :
                      References(edge, id)
                      => LET neighbour == IF edge.source = id THEN edge.target
                                          ELSE edge.source
                         IN  HasNode(GraphValueNext, neighbour)
                             => id \in SeqRange(GetNode(GraphValueNext, neighbour)
                                                    .metadata.pending_backprop)
             /\ \A node \in SeqRange(Nodes(GraphValueNext)) :
                   node.metadata.pending_backprop
                     = SortedIds(SeqRange(node.metadata.pending_backprop))]_vars

\* propagate_pending has run on an edge between two pending nodes
C35_Witness ==
    /\ kgCall.op = "propagate_pending"
    /\ Len(kgCall.result) = 2
    /\ \E edge \in SeqRange(Edges(GraphValue)) :
          /\ edge.weight = DegradedTimes(160000, 2)
          /\ edge.metadata.pending_review


\* what _execute_command does with a command for the session, by the order
\* of its checks
ExpectedOutcome(session_id, command, confirmer) ==
    IF ~PolicyAllows(command.device_id, command.action) THEN "iot_denied"
    ELSE IF session_counts[session_id] >= IotPolicy.max_actions_per_session
    THEN "iot_rate_limited"
    ELSE IF /\ command.requires_confirmation
               \/ NeedsConfirmation(command.device_id, command.action)
            /\ confirmer # "yes"
    THEN "iot_unconfirmed"
    ELSE "iot_executed"

\* C36: a refused dispatch raises, appends exactly one journal entry
\* (iot_denied, else iot_rate_limited, else iot_unconfirmed) and leaves the
\* session counters and the sensor hub unchanged; an executed dispatch adds
\* exactly one to the counter of its session and one event, named after the
\* device and the action, to the sensor hub.  In a batch the counter and the
\* hub grow by the number of commands executed.
C36_RefusalsLeaveNoTrace ==
    [][/\ iotCall'.op = "dispatch"
          => LET session_id == iotCall'.args.session_id
                 command == iotCall'.args.command
                 outcome == ExpectedOutcome(session_id, command, iotCall'.args.confirmer)
             IN  IF outcome # "iot_executed"
                 THEN /\ iotCall'.raised # "none"
                      /\ Len(entries') = Len(entries) + 1
                      /\ SubSeq(entries', 1, Len(entries)) = entries
                      /\ entries'[Len(entries')].event = outcome
                      /\ session_counts' = session_counts
                      /\ sensor_hub' = sensor_hub
                 ELSE /\ iotCall'.raised = "none"
                      /\ session_counts'
                           = [session_counts EXCEPT ![session_id] = @ + 1]
                      /\ Len(sensor_hub'.events) = Len(sensor_hub.events) + 1
                      /\ \E i \in 1..Len(sensor_hub'.events) :
                            /\ sensor_hub'.events[i]
                                 = [source |-> session_id,
                                    signal_type |-> <<"iot", command.device_id,
                                                      command.action>>,
                                    value |-> 1, timestamp |-> now]
                            /\ [j \in 1..Len(sensor_hub.events) |->
                                   sensor_hub'.events[IF j < i THEN j ELSE j + 1]]
                                 = sensor_hub.events
       /\ iotCall'.op = "dispatch_batch"
          => LET session_id == iotCall'.args.session_id
                 k == Len(iotCall'.executed)
             IN  /\ session_counts' = [session_counts EXCEPT ![session_id] = @ + k]
                 /\ Len(sensor_hub'.events) = Len(sensor_hub.events) + k
                 /\ Len(entries') = Len(entries) + 2 * k
                                      + (IF iotCall'.raised # "none" THEN 1 ELSE 0)]_vars

\* a refusal of each kind and an execution have been journaled, and the hub
\* holds one event for each executed command
C36_Witness ==
    /\ iotCall.op = "dispatch"
    /\ iotCall.raised # "none"
    /\ {"iot_executed", "iot_sensor_sync", "iot_rate_limited"}
          \subseteq {entries[i].event : i \in 1..Len(entries)}
    /\ Len(sensor_hub.events) = 2


\* C37: process never returns, freshly computed or from the offline cache, an
\* execution with status ok for a skill whose manifest permissions are not
\* all within the skill_scopes of the request being answered.
C37_OkOnlyWithinScopes ==
    resp.called =>
       \A i \in 1..Len(resp.executions) :
          LET execution == resp.executions[i]
          IN  (execution.skill # None /\ execution.output.status = "ok")
                 => Manifest(execution.skill).permissions \subseteq resp.request.skill_scopes


\* r differs from req in nothing but the values of modalities the user has
\* not consented to
TwinOf(req, r) ==
    /\ DOMAIN r.modalities = DOMAIN req.modalities
    /\ [r EXCEPT !.modalities = req.modalities] = req
    /\ \A m \in DOMAIN req.modalities :
          m \in consentAllowed => r.modalities[m] = req.modalities[m]

\* C38: a request that differs from the one just processed only in the value
\* of a modality the user has not consented to gets the same transcript, the
\* same offline cache key, the same RAG query and the same sandbox payload
\* for every step of the plan.
C38_BlockedModalityHasNoInfluence ==
    [][calls' = calls + 1
       => \A twin \in TwinRequests :
             TwinOf(resp'.request, twin)
             => LET mine == Intake(resp'.request)
                    theirs == Intake(twin)
                IN  /\ theirs.transcript = mine.transcript
                    /\ theirs.key = mine.key
                    /\ RagQuery(theirs.transcript, twin.goal)
                         = RagQuery(mine.transcript, resp'.request.goal)
                    /\ \A i \in 1..Len(resp'.plan.steps) :
                          SandboxPayload(twin, resp'.plan.steps[i], theirs.allowedMods)
                            = SandboxPayload(resp'.request, resp'.plan.steps[i],
                                             mine.allowedMods)
                    /\ (lastExec'.called /\ ~resp'.cached)
                          => lastExec'.payload
                               = SandboxPayload(twin, resp'.plan.steps[Len(resp'.plan.steps)],
                                                theirs.allowedMods)
                    /\ ~resp'.cached => resp'.answer.query
                                          = RagQuery(theirs.transcript, twin.goal)]_vars

\* a request whose text and image the user has not consented to has run a
\* skill in the sandbox
C38_Witness ==
    /\ resp.called
    /\ ~resp.cached
    /\ consentAllowed = {}
    /\ resp.request.modalities = [text |-> "secret", image |-> "scan"]
    /\ lastExec.called
    /\ lastExec.payload.modalities = {}


\* C39: once append has returned, nothing the caller does with the mapping it
\* passed in makes verify() false or changes what save writes: the journal
\* verifies, and the file save wrote loads.
C39_HashOutlivesCallerMutation ==
    /\ Verify(entries)
    /\ file.exists => LoadLines(file.lines, 1, <<>>).ok


\* the commands the last call of the bridge handed to _execute_command: the
\* ones executed and the one whose refusal ended the call
Attempted == Len(iotCall.executed) + (IF iotCall.raised # "none" THEN 1 ELSE 0)

\* C40: a queued command is in the deferred queue until it is handed to
\* execution once or its session is reset: the commands release_delayed
\* takes out of the queue are all attempted, merge_after_offline attempts
\* every distinct command of the session's queued and offline commands and
\* leaves the other sessions' commands queued, and reset_session removes
\* the commands of its session only.
C40_NoQueuedCommandLost ==
    LET OfSession(record) == record.session_id = iotCall.args.session_id
        Others(record) == record.session_id # iotCall.args.session_id
    IN  /\ iotCall.op = "release_delayed"
              => Len(iotCall.before) - Len(deferred) = Attempted
        /\ iotCall.op = "merge_after_offline"
              => LET carried == SelectSeq(iotCall.before, OfSession)
                     offline == iotCall.args.offline_commands
                     signatures ==
                        {<<carried[k].command.device_id, carried[k].command.action>> :
                            k \in 1..Len(carried)}
                        \cup {<<offline[k].device_id, offline[k].action>> :
                                 k \in 1..Len(offline)}
                 IN  /\ deferred = SelectSeq(iotCall.before, Others)
                     /\ Attempted = Cardinality(signatures)
        /\ iotCall.op = "reset_session"
              => deferred = SelectSeq(iotCall.before, Others)

=============================================================================
